---------------------------- MODULE Spec2Model ----------------------------
(***************************************************************************)
(* A model of pencil-structural-compare: the colour/value primitives, the *)
(* path equivalence resolver, the two normalizers and the tree comparator. *)
(*                                                                         *)
(* JavaScript strings are sequences of one-character strings, so that      *)
(* trimming, lower-casing, splitting and parsing are computed as the code  *)
(* computes them.  A JavaScript value (number | string | undefined) is a   *)
(* record [k, n, d, s]: a number is the fraction n/d (d = 0 for NaN), a    *)
(* string has its characters in s.  Tolerances are whole numbers.          *)
(* Euclidean distances are kept squared (integers): for t >= 0,            *)
(* sqrt(d2) <= t iff d2 <= t*t.                                            *)
(***************************************************************************)
EXTENDS Integers, Sequences, FiniteSets, TLC

VARIABLES
    fn,               \* pure-function harness: the function being applied
    args,             \* its arguments
    ret,              \* [done, val]: whether it has returned, and its value
    pencilElements,   \* compareStructures: the design forest
    codeElements,     \* compareStructures: the implementation forest
    options,          \* compareStructures: ComparisonOptions
    pc,               \* compareStructures: position in the function body
    pathMatches,      \* compareStructures: design path -> aligned code path
    todo,             \* compareStructures: paths of allPaths not yet visited
    matchedPencilIds, \* compareStructures: ids of claimed design elements
    matchedCodeIds,   \* compareStructures: ids of claimed code elements
    result,           \* compareStructures: the ComparisonResult being built
    fileInput,        \* normalizeCodeFile: what tsxCode and cssCode parse to
    filePc,           \* normalizeCodeFile: position in the function body
    fileElements,     \* normalizeCodeFile: the elements pushed so far
    pendingRoots,     \* normalizeCodeFile: returned JSX elements not yet visited
    raised,           \* normalizeCodeFile: an error was raised inside the try
    fileResult,       \* normalizeCodeFile: the promise it returned
    components,       \* processBatch: the input components
    batchOptions,     \* processBatch: ProcessorOptions
    batchPc,          \* processBatch: position in the function body
    batchIndex,       \* processBatch: the shared cursor of processNext
    results,          \* processBatch: the results pushed so far
    workers,          \* processBatch: the state of each worker of the pool
    processed,        \* processBatch: the calls of processComponent, in order
    batchResult       \* processBatch: the BatchProcessResult it resolved to

vars == <<fn, args, ret, pencilElements, codeElements, options, pc,
          pathMatches, todo, matchedPencilIds, matchedCodeIds, result,
          fileInput, filePc, fileElements, pendingRoots, raised, fileResult,
          components, batchOptions, batchPc, batchIndex, results, workers,
          processed, batchResult>>

fileVars == <<fileInput, filePc, fileElements, pendingRoots, raised, fileResult>>

batchVars == <<components, batchOptions, batchPc, batchIndex, results, workers,
               processed, batchResult>>

harnessVars == <<fn, args, ret>>

compareVars == <<pencilElements, codeElements, options, pc, pathMatches,
                 todo, matchedPencilIds, matchedCodeIds, result>>

---------------------------------------------------------------------------
(* Strings                                                                 *)

s_empty == <<>>
s_black == <<"#", "0", "0", "0", "0", "0", "0">>
s_near == <<"#", "0", "A", "0", "A", "0", "A">>
s_nearLower == <<"#", "0", "a", "0", "a", "0", "a">>
s_nearNoHash == <<"0", "A", "0", "A", "0", "A">>
s_short == <<"#", "0", "0", "0">>
s_red == <<"r", "e", "d">>
s_cyan == <<"#", "0", "0", "B", "C", "D", "4">>
s_cyanNear == <<"#", "0", "0", "B", "D", "D", "4">>
s_rgbaCyanBg == <<"r", "g", "b", "a", "(", "0", ",", " ", "1", "8", "8", ",", " ", "2", "1", "2", ",", " ", "0", ".", "1", ")">>
s_rgbaClear == <<"r", "g", "b", "a", "(", "0", ",", " ", "0", ",", " ", "0", ",", " ", "0", ".", "0", "4", ")">>
s_rgbaSolid == <<"r", "g", "b", "a", "(", "0", ",", " ", "0", ",", " ", "0", ",", " ", "0", ".", "5", ")">>
s_normal == <<"n", "o", "r", "m", "a", "l">>
s_400 == <<"4", "0", "0">>
s_700 == <<"7", "0", "0">>
s_bold == <<"b", "o", "l", "d">>
s_Bold == <<"B", "o", "l", "d">>
s_400px == <<"4", "0", "0", "p", "x">>
s_Hello == <<"H", "e", "l", "l", "o">>
s_helloPad == <<" ", "h", "e", "l", "l", "o", " ">>
s_Bye == <<"B", "y", "e">>
s_blank == <<" ">>
s_Home == <<"H", "o", "m", "e">>
s_title == <<"t", "i", "t", "l", "e">>
s_greeting == <<"g", "r", "e", "e", "t", "i", "n", "g">>
s_header == <<"h", "e", "a", "d", "e", "r">>
s_divider == <<"d", "i", "v", "i", "d", "e", "r">>
s_divider1 == <<"d", "i", "v", "i", "d", "e", "r", "1">>
s_divider2 == <<"d", "i", "v", "i", "d", "e", "r", "2">>
s_settingsButton == <<"s", "e", "t", "t", "i", "n", "g", "s", "B", "u", "t", "t", "o", "n">>
s_settingsIndicator == <<"s", "e", "t", "t", "i", "n", "g", "s", "I", "n", "d", "i", "c", "a", "t", "o", "r">>
s_settingsIndicatorContainer == <<"s", "e", "t", "t", "i", "n", "g", "s", "I", "n", "d", "i", "c", "a", "t", "o", "r", "C", "o", "n", "t", "a", "i", "n", "e", "r">>
s_headerActions == <<"h", "e", "a", "d", "e", "r", "A", "c", "t", "i", "o", "n", "s">>
s_SettingsDropdown == <<"S", "e", "t", "t", "i", "n", "g", "s", "D", "r", "o", "p", "d", "o", "w", "n">>
s_welcomeMsg == <<"w", "e", "l", "c", "o", "m", "e", "M", "s", "g">>
s_welcomeMessage == <<"w", "e", "l", "c", "o", "m", "e", "M", "e", "s", "s", "a", "g", "e">>
s_rgba == <<"r", "g", "b", "a">>
s_rgbaCyanPrefix == <<"r", "g", "b", "a", "(", "0", ",", " ", "1", "8", "8", ",", " ", "2", "1", "2">>

\* String.prototype.startsWith
StartsWith(s, p) ==
    /\ Len(p) <= Len(s)
    /\ SubSeq(s, 1, Len(p)) = p

\* String.prototype.indexOf, 1-based; 0 when absent (JavaScript: -1)
IndexOf(s, p) ==
    LET hits == {i \in 1..(Len(s) - Len(p) + 1) : SubSeq(s, i, i + Len(p) - 1) = p}
    IN  IF hits = {} THEN 0 ELSE CHOOSE i \in hits : \A j \in hits : i <= j

\* String.prototype.includes
Includes(s, p) == Len(p) = 0 \/ IndexOf(s, p) > 0

UpperLetters == <<"A", "B", "C", "D", "E", "F", "G", "H", "I", "J", "K", "L", "M",
                  "N", "O", "P", "Q", "R", "S", "T", "U", "V", "W", "X", "Y", "Z">>

LowerLetters == <<"a", "b", "c", "d", "e", "f", "g", "h", "i", "j", "k", "l", "m",
                  "n", "o", "p", "q", "r", "s", "t", "u", "v", "w", "x", "y", "z">>

Digits == <<"0", "1", "2", "3", "4", "5", "6", "7", "8", "9">>

IsUpper(c) == \E i \in 1..26 : UpperLetters[i] = c
IsLower(c) == \E i \in 1..26 : LowerLetters[i] = c
IsDigit(c) == \E i \in 1..10 : Digits[i] = c
DigitVal(c) == (CHOOSE i \in 1..10 : Digits[i] = c) - 1

LowerChar(c) ==
    IF IsUpper(c) THEN LowerLetters[CHOOSE i \in 1..26 : UpperLetters[i] = c] ELSE c

UpperChar(c) ==
    IF IsLower(c) THEN UpperLetters[CHOOSE i \in 1..26 : LowerLetters[i] = c] ELSE c

\* String.prototype.toLowerCase
toLowerCase(s) == [i \in 1..Len(s) |-> LowerChar(s[i])]

\* String.prototype.trim (the white space of the model is the blank)
trim(s) ==
    LET keep == {i \in 1..Len(s) : s[i] # " "}
    IN  IF keep = {} THEN <<>>
        ELSE SubSeq(s, CHOOSE i \in keep : \A j \in keep : i <= j,
                       CHOOSE i \in keep : \A j \in keep : i >= j)

---------------------------------------------------------------------------
(* JavaScript values                                                       *)

Undef == [k |-> "undef", n |-> 0, d |-> 1, s |-> <<>>]
Num(x) == [k |-> "num", n |-> x, d |-> 1, s |-> <<>>]
Str(x) == [k |-> "str", n |-> 0, d |-> 1, s |-> x]

\* the number NaN
NaNValue == [k |-> "num", n |-> 0, d |-> 0, s |-> <<>>]

RECURSIVE Dec(_, _)
\* the number num / den for den a power of ten, in lowest such terms
Dec(num, den) ==
    IF den > 1 /\ num % 10 = 0 THEN Dec(num \div 10, den \div 10)
    ELSE [k |-> "num", n |-> num, d |-> den, s |-> <<>>]

IsUndef(v) == v.k = "undef"
IsNum(v) == v.k = "num"
IsStr(v) == v.k = "str"

\* truthiness of a string | undefined value: '' and undefined are falsy
Truthy(v) ==
    \/ IsStr(v) /\ Len(v.s) > 0
    \/ IsNum(v) /\ v.n # 0 /\ v.d # 0

Abs(x) == IF x < 0 THEN -x ELSE x

\* a === b
StrictEq(a, b) == a = b /\ ~(IsNum(a) /\ a.d = 0)

\* the mutant of NumWithin: a difference of exactly the tolerance
NumWithin_exactly(a, b, tolerance) ==
    /\ a.d # 0 /\ b.d # 0
    /\ Abs(a.n * b.d - b.n * a.d) = tolerance * a.d * b.d

\* Math.abs(a - b) <= tolerance, for numbers a and b
NumWithin(a, b, tolerance) ==
    /\ a.d # 0 /\ b.d # 0
    /\ Abs(a.n * b.d - b.n * a.d) <= tolerance * a.d * b.d

---------------------------------------------------------------------------
(* utils/color.ts                                                          *)

HexVal(c) ==
    LET l == LowerChar(c)
    IN  IF IsDigit(l) THEN DigitVal(l)
        ELSE 9 + (CHOOSE i \in 1..6 : LowerLetters[i] = l)

IsHexChar(c) ==
    LET l == LowerChar(c)
    IN  IsDigit(l) \/ \E i \in 1..6 : LowerLetters[i] = l

NoRgb == [ok |-> FALSE, r |-> 0, g |-> 0, b |-> 0]

\* /^#?([a-f\d]{2})([a-f\d]{2})([a-f\d]{2})$/i : null unless exactly six
\* hex digits after an optional '#'
hexToRgb(hex) ==
    LET body == IF Len(hex) > 0 /\ hex[1] = "#" THEN Tail(hex) ELSE hex
    IN  IF Len(body) = 6 /\ \A i \in 1..6 : IsHexChar(body[i])
        THEN [ok |-> TRUE,
              r |-> 16 * HexVal(body[1]) + HexVal(body[2]),
              g |-> 16 * HexVal(body[3]) + HexVal(body[4]),
              b |-> 16 * HexVal(body[5]) + HexVal(body[6])]
        ELSE NoRgb

\* the square of Math.sqrt(dr^2 + dg^2 + db^2)
RgbDistanceSq(a, b) ==
    (a.r - b.r) * (a.r - b.r) + (a.g - b.g) * (a.g - b.g) + (a.b - b.b) * (a.b - b.b)

\* (255 * sqrt(3))^2, the sentinel of colorDistance squared
MaxDistanceSq == 195075

\* the mutant of colorDistanceSq: only the first colour must parse
colorDistanceSq_firstOnly(color1, color2) ==
    LET rgb1 == hexToRgb(color1)
        rgb2 == hexToRgb(color2)
    IN  IF ~rgb1.ok THEN (IF color1 = color2 THEN 0 ELSE MaxDistanceSq)
        ELSE IF ~rgb2.ok THEN 0
        ELSE RgbDistanceSq(rgb1, rgb2)

\* colorDistance, squared
colorDistanceSq(color1, color2) ==
    LET rgb1 == hexToRgb(color1)
        rgb2 == hexToRgb(color2)
    IN  IF ~rgb1.ok \/ ~rgb2.ok
        THEN (IF color1 = color2 THEN 0 ELSE MaxDistanceSq)
        ELSE RgbDistanceSq(rgb1, rgb2)

colorsEqual(color1, color2, tolerance) ==
    IF color1 = color2 THEN TRUE
    ELSE IF tolerance > 0
         THEN colorDistanceSq(color1, color2) <= tolerance * tolerance
         ELSE FALSE

---------------------------------------------------------------------------
(* utils/format.ts                                                         *)

NaN == [nan |-> TRUE, n |-> 0, d |-> 1]

RECURSIVE DigitsValue(_, _)
\* the value of the decimal digit string s, continuing from acc
DigitsValue(s, acc) ==
    IF Len(s) = 0 THEN acc
    ELSE DigitsValue(Tail(s), 10 * acc + DigitVal(Head(s)))

\* the longest prefix of s made of decimal digits
DigitPrefix(s) ==
    LET stops == {i \in 1..Len(s) : ~IsDigit(s[i])}
    IN  IF stops = {} THEN s
        ELSE SubSeq(s, 1, (CHOOSE i \in stops : \A j \in stops : i <= j) - 1)

\* parseInt(s, 10): leading white space skipped, optional sign, then the
\* longest run of digits; NaN when there is no digit
parseInt(s) ==
    LET keep == {i \in 1..Len(s) : s[i] # " "}
        t == IF keep = {} THEN <<>>
             ELSE SubSeq(s, CHOOSE i \in keep : \A j \in keep : i <= j, Len(s))
        neg == Len(t) > 0 /\ t[1] = "-"
        u == IF Len(t) > 0 /\ t[1] \in {"-", "+"} THEN Tail(t) ELSE t
        d == DigitPrefix(u)
    IN  IF Len(d) = 0 THEN NaN
        ELSE [nan |-> FALSE, d |-> 1,
              n |-> IF neg THEN 0 - DigitsValue(d, 0) ELSE DigitsValue(d, 0)]

\* the fontWeight coercion of valuesEqual: 'normal' -> 400, strings through
\* parseInt, numbers as they are
FontWeightNum(v) ==
    IF IsStr(v)
    THEN (IF v.s = s_normal THEN [nan |-> FALSE, n |-> 400, d |-> 1] ELSE parseInt(v.s))
    ELSE [nan |-> v.d = 0, n |-> v.n, d |-> v.d]

\* a plausible slip: no fontWeight case, so that weights fall through to
\* the tolerant numeric comparison
valuesEqual_withoutFontWeight(val1, val2, tolerance, property) ==
    IF IsUndef(val1) THEN IsUndef(val2)
    ELSE IF IsUndef(val2) THEN FALSE
    ELSE IF StrictEq(val1, val2) THEN TRUE
    ELSE IF IsNum(val1) /\ IsNum(val2) THEN NumWithin(val1, val2, tolerance)
    ELSE IF IsStr(val1) /\ IsStr(val2) THEN toLowerCase(val1.s) = toLowerCase(val2.s)
    ELSE FALSE

valuesEqual(val1, val2, tolerance, property) ==
    IF IsUndef(val1) THEN IsUndef(val2)
    ELSE IF IsUndef(val2) THEN FALSE
    ELSE IF StrictEq(val1, val2) THEN TRUE
    ELSE IF property = "fontWeight"
            /\ ~FontWeightNum(val1).nan /\ ~FontWeightNum(val2).nan
         THEN FontWeightNum(val1) = FontWeightNum(val2)
    ELSE IF IsNum(val1) /\ IsNum(val2) THEN NumWithin(val1, val2, tolerance)
    ELSE IF IsStr(val1) /\ IsStr(val2) THEN toLowerCase(val1.s) = toLowerCase(val2.s)
    ELSE FALSE

---------------------------------------------------------------------------
(* config/name-mapping.ts, config/independent-components.ts               *)

PENCIL_TO_CODE_NAME ==
    <<  <<s_settingsButton, s_SettingsDropdown>>,
        <<s_settingsIndicator, s_SettingsDropdown>>,
        <<s_settingsIndicatorContainer, s_SettingsDropdown>>,
        <<s_welcomeMsg, s_welcomeMessage>> >>

mapPencilNameToCode(pencilName) ==
    LET hits == {i \in 1..Len(PENCIL_TO_CODE_NAME) : PENCIL_TO_CODE_NAME[i][1] = pencilName}
    IN  IF hits = {} THEN pencilName
        ELSE PENCIL_TO_CODE_NAME[CHOOSE i \in hits : TRUE][2]

\* String.prototype.replace(/\d+$/, '')
stripNumericSuffix(name) ==
    LET keep == {i \in 1..Len(name) : ~IsDigit(name[i])}
    IN  IF keep = {} THEN <<>>
        ELSE SubSeq(name, 1, CHOOSE i \in keep : \A j \in keep : i >= j)

INDEPENDENT_COMPONENT_MAPPING ==
    <<  <<s_settingsButton, s_SettingsDropdown>>,
        <<s_settingsIndicator, s_SettingsDropdown>>,
        <<s_settingsIndicatorContainer, s_SettingsDropdown>>,
        <<s_headerActions, s_SettingsDropdown>> >>

isIndependentComponent(pencilName) ==
    \E i \in 1..Len(INDEPENDENT_COMPONENT_MAPPING) :
        INDEPENDENT_COMPONENT_MAPPING[i][1] = pencilName

---------------------------------------------------------------------------
(* utils/path.ts                                                           *)

PATH_SEPARATOR == <<" ", ">", " ">>

RECURSIVE NatToStr(_)
\* the decimal digits of a natural number (template-literal interpolation)
NatToStr(n) ==
    IF n < 10 THEN <<Digits[n + 1]>>
    ELSE NatToStr(n \div 10) \o <<Digits[(n % 10) + 1]>>

\* index is the 0-based sibling position
buildPath(parentPath, name, index) ==
    IF Len(parentPath) = 0 THEN name
    ELSE parentPath \o PATH_SEPARATOR \o name \o <<"[">> \o NatToStr(index) \o <<"]">>

RECURSIVE Split(_, _)
\* String.prototype.split with a non-empty separator
Split(s, sep) ==
    LET i == IndexOf(s, sep)
    IN  IF i = 0 THEN <<s>>
        ELSE <<SubSeq(s, 1, i - 1)>> \o Split(SubSeq(s, i + Len(sep), Len(s)), sep)

extractName(pathPart) ==
    LET bracketIndex == IndexOf(pathPart, <<"[">>)
    IN  IF bracketIndex = 0 THEN pathPart
        ELSE SubSeq(pathPart, 1, bracketIndex - 1)

\* nameMapping ? nameMapping(name) : name, the optional argument being
\* "none" or the name of the alias function passed
ApplyNameMapping(nameMapping, name) ==
    IF nameMapping = "mapPencilNameToCode" THEN mapPencilNameToCode(name) ELSE name

\* the mutant of arePathsEquivalentByName: the two paths must also have the
\* same number of segments
arePathsEquivalentByName_sameDepth(pencilPath, codePath, nameMapping) ==
    IF pencilPath = codePath THEN TRUE
    ELSE LET pencilParts == Split(pencilPath, <<" ", ">", " ">>)
             codeParts == Split(codePath, <<" ", ">", " ">>)
             pencilRootName == extractName(pencilParts[1])
             codeRootName == extractName(codeParts[1])
             pencilLastName == extractName(pencilParts[Len(pencilParts)])
             codeLastName == extractName(codeParts[Len(codeParts)])
         IN  IF pencilRootName # codeRootName THEN FALSE
             ELSE /\ Len(pencilParts) = Len(codeParts)
                  /\ ApplyNameMapping(nameMapping, pencilLastName) = codeLastName

arePathsEquivalentByName(pencilPath, codePath, nameMapping) ==
    IF pencilPath = codePath THEN TRUE
    ELSE LET pencilParts == Split(pencilPath, <<" ", ">", " ">>)
             codeParts == Split(codePath, <<" ", ">", " ">>)
             pencilRootName == extractName(pencilParts[1])
             codeRootName == extractName(codeParts[1])
             pencilLastName == extractName(pencilParts[Len(pencilParts)])
             codeLastName == extractName(codeParts[Len(codeParts)])
         IN  IF pencilRootName # codeRootName THEN FALSE
             ELSE ApplyNameMapping(nameMapping, pencilLastName) = codeLastName

---------------------------------------------------------------------------
(* StandardElement: [id, type, path, content, styles, children, independent]*)
(* content is a value (string | undefined); styles is an object, kept as   *)
(* the sequence of its <<key, value>> entries in insertion order; children *)
(* is [def, v]: absent, or a sequence of elements.                         *)

NoChildren == [def |-> FALSE, v |-> <<>>]

\* obj[key]
StyleGet(styles, key) ==
    LET hits == {i \in 1..Len(styles) : styles[i][1] = key}
    IN  IF hits = {} THEN Undef ELSE styles[CHOOSE i \in hits : TRUE][2]

\* key in obj
StyleHas(styles, key) == \E i \in 1..Len(styles) : styles[i][1] = key

\* obj[key] = value: an existing key keeps its position
StyleSet(styles, key, value) ==
    IF StyleHas(styles, key)
    THEN [i \in 1..Len(styles) |->
            IF styles[i][1] = key THEN <<key, value>> ELSE styles[i]]
    ELSE Append(styles, <<key, value>>)

\* Object.keys(obj)
StyleKeys(styles) == [i \in 1..Len(styles) |-> styles[i][1]]

RECURSIVE Flatten(_)
\* the pre-order walk of a forest that addElement performs
Flatten(elements) ==
    IF Len(elements) = 0 THEN <<>>
    ELSE <<Head(elements)>> \o Flatten(Head(elements).children.v) \o Flatten(Tail(elements))

RECURSIVE IndexInsert(_, _)
\* index[el.path] = el for each element of the walk, in order: a record
\* <<path, el>> per key, keys in insertion order, a later element replacing
\* an earlier one under the same key
IndexInsert(walk, index) ==
    IF Len(walk) = 0 THEN index
    ELSE LET el == Head(walk)
             hits == {i \in 1..Len(index) : index[i][1] = el.path}
         IN  IndexInsert(Tail(walk),
                IF hits = {} THEN Append(index, <<el.path, el>>)
                ELSE [i \in 1..Len(index) |->
                        IF i \in hits THEN <<el.path, el>> ELSE index[i]])

indexByPath(elements) == IndexInsert(Flatten(elements), <<>>)

\* Object.keys(index)
IndexKeys(index) == [i \in 1..Len(index) |-> index[i][1]]

\* index[path] is defined
IndexHas(index, path) == \E i \in 1..Len(index) : index[i][1] = path

\* index[path], when defined
IndexGet(index, path) == index[CHOOSE i \in 1..Len(index) : index[i][1] = path][2]

\* el.content && el.content.trim()
HasText(el) == IsStr(el.content) /\ Len(trim(el.content.s)) > 0

\* el.content.trim().toLowerCase()
ContentKey(el) == toLowerCase(trim(el.content.s))

\* indexByContent(elements).get(key): the elements of the walk with that
\* key, in encounter order (empty when the Map has no such key)
indexByContent(elements, key) ==
    SelectSeq(Flatten(elements), LAMBDA el : HasText(el) /\ ContentKey(el) = key)

NoElement == [ok |-> FALSE, el |-> <<>>]

\* findMatchByContent without the loop that prefers a candidate of the
\* type of the target
findMatchByContent_firstUnclaimed(target, contentIndex, matchedIds) ==
    IF ~HasText(target) THEN NoElement
    ELSE LET candidates == indexByContent(contentIndex, ContentKey(target))
             anyType == {i \in 1..Len(candidates) : candidates[i].id \notin matchedIds}
         IN  IF anyType # {}
             THEN [ok |-> TRUE, el |-> candidates[CHOOSE i \in anyType : \A j \in anyType : i <= j]]
             ELSE NoElement

\* contentIndex is given by the forest it was built from
findMatchByContent(target, contentIndex, matchedIds) ==
    IF ~HasText(target) THEN NoElement
    ELSE LET candidates == indexByContent(contentIndex, ContentKey(target))
             sameType == {i \in 1..Len(candidates) :
                            /\ candidates[i].id \notin matchedIds
                            /\ candidates[i].type = target.type}
             anyType == {i \in 1..Len(candidates) : candidates[i].id \notin matchedIds}
         IN  IF sameType # {}
             THEN [ok |-> TRUE, el |-> candidates[CHOOSE i \in sameType : \A j \in sameType : i <= j]]
             ELSE IF anyType # {}
             THEN [ok |-> TRUE, el |-> candidates[CHOOSE i \in anyType : \A j \in anyType : i <= j]]
             ELSE NoElement

---------------------------------------------------------------------------
(* ComparisonOptions: [tolerance, colorTolerance, severity, ignoreProperties]*)
(* tolerance and colorTolerance are values (number | undefined), severity  *)
(* is "undef" or a mode, ignoreProperties is [def, v] with v a set.        *)

\* options.tolerance || 0
OrZero(v) == IF IsNum(v) /\ v.d = 1 THEN v.n ELSE 0

\* new Set(options.ignoreProperties || [])
IgnoreProps(opts) == IF opts.ignoreProperties.def THEN opts.ignoreProperties.v ELSE {}

---------------------------------------------------------------------------
(* core/element.ts                                                         *)

propertiesToCompare ==
    <<"content", "fontSize", "fontWeight", "color", "backgroundColor",
      "padding", "gap", "borderRadius">>

\* compareProperty of core/element.ts
compareElementProperty(property, pencilValue, codeValue, opts) ==
    IF IsUndef(pencilValue) /\ IsUndef(codeValue) THEN TRUE
    ELSE IF IsUndef(pencilValue) \/ IsUndef(codeValue) THEN FALSE
    ELSE IF StrictEq(pencilValue, codeValue) THEN TRUE
    ELSE IF IsNum(pencilValue) /\ IsNum(codeValue)
         THEN NumWithin(pencilValue, codeValue, OrZero(opts.tolerance))
    ELSE IF /\ IsStr(pencilValue) /\ IsStr(codeValue)
            /\ property \in {"color", "backgroundColor"}
            /\ StartsWith(pencilValue.s, <<"#">>) /\ StartsWith(codeValue.s, <<"#">>)
            /\ hexToRgb(pencilValue.s).ok /\ hexToRgb(codeValue.s).ok
         THEN RgbDistanceSq(hexToRgb(pencilValue.s), hexToRgb(codeValue.s))
                <= OrZero(opts.colorTolerance) * OrZero(opts.colorTolerance)
    ELSE FALSE

\* the value of a comparable property on an element
PropValue(el, prop) ==
    IF prop = "content" THEN el.content ELSE StyleGet(el.styles, prop)

\* the mutant of compareElements: properties absent on both sides count
\* toward the denominator
compareElements_countsAbsent(pencil, code, opts) ==
    LET compared == SelectSeq(propertiesToCompare, LAMBDA prop :
                        /\ prop \notin IgnoreProps(opts)
                        /\ ~(IsUndef(PropValue(pencil, prop)) /\ IsUndef(PropValue(code, prop))))
        propertiesMatch == [i \in 1..Len(compared) |->
                        <<compared[i], compareElementProperty(compared[i],
                              PropValue(pencil, compared[i]), PropValue(code, compared[i]), opts)>>]
        matchCount == Cardinality({i \in 1..Len(compared) : propertiesMatch[i][2]})
        totalCount == Len(SelectSeq(propertiesToCompare,
                                    LAMBDA prop : prop \notin IgnoreProps(opts)))
    IN  [path |-> pencil.path, pencil |-> pencil, code |-> code,
         confidence |-> IF totalCount > 0 THEN [num |-> matchCount, den |-> totalCount]
                        ELSE [num |-> 1, den |-> 1],
         propertiesMatch |-> propertiesMatch,
         matchMethod |-> "undef"]

\* confidence is the fraction num/den
compareElements(pencil, code, opts) ==
    LET compared == SelectSeq(propertiesToCompare, LAMBDA prop :
                        /\ prop \notin IgnoreProps(opts)
                        /\ ~(IsUndef(PropValue(pencil, prop)) /\ IsUndef(PropValue(code, prop))))
        propertiesMatch == [i \in 1..Len(compared) |->
                        <<compared[i], compareElementProperty(compared[i],
                              PropValue(pencil, compared[i]), PropValue(code, compared[i]), opts)>>]
        matchCount == Cardinality({i \in 1..Len(compared) : propertiesMatch[i][2]})
        totalCount == Len(compared)
    IN  [path |-> pencil.path, pencil |-> pencil, code |-> code,
         confidence |-> IF totalCount > 0 THEN [num |-> matchCount, den |-> totalCount]
                        ELSE [num |-> 1, den |-> 1],
         propertiesMatch |-> propertiesMatch,
         matchMethod |-> "undef"]

---------------------------------------------------------------------------
(* core/style.ts                                                           *)

CRITICAL_PROPERTIES ==
    {"content", "fontSize", "fontWeight", "color", "backgroundColor", "padding", "gap"}

\* compareProperty of core/style.ts
compareStyleProperty(property, pencilValue, codeValue, tolerance, colorTolerance) ==
    IF property \in {"color", "backgroundColor"} /\ IsStr(pencilValue) /\ IsStr(codeValue)
    THEN colorsEqual(pencilValue.s, codeValue.s, colorTolerance)
    ELSE valuesEqual(pencilValue, codeValue, tolerance, property)

\* the mutant of getSeverity: every property is critical in normal mode
getSeverity_allCritical(property, opts) ==
    IF opts.severity = "strict" THEN "error"
    ELSE IF opts.severity = "lenient" THEN "info"
    ELSE "error"

getSeverity(property, opts) ==
    IF opts.severity = "strict" THEN "error"
    ELSE IF opts.severity = "lenient" THEN "info"
    ELSE IF property \in CRITICAL_PROPERTIES THEN "error"
    ELSE "warning"

\* the magnitude of a difference: k = "num" is |a - b| as the fraction n/d
\* (d = 0 for NaN), k = "sqrt" is the square root of n (an RGB distance),
\* k = "undef" is no magnitude
calculateDiff(pencilValue, codeValue) ==
    IF IsNum(pencilValue) /\ IsNum(codeValue)
    THEN [k |-> "num", n |-> Abs(pencilValue.n * codeValue.d - codeValue.n * pencilValue.d),
          d |-> pencilValue.d * codeValue.d]
    ELSE IF /\ IsStr(pencilValue) /\ IsStr(codeValue)
            /\ StartsWith(pencilValue.s, <<"#">>) /\ StartsWith(codeValue.s, <<"#">>)
            /\ hexToRgb(pencilValue.s).ok /\ hexToRgb(codeValue.s).ok
         THEN [k |-> "sqrt", n |-> RgbDistanceSq(hexToRgb(pencilValue.s), hexToRgb(codeValue.s)),
               d |-> 1]
    ELSE [k |-> "undef", n |-> 0, d |-> 1]

\* new Set([...a, ...b]) of two key lists, in insertion order
KeyUnion(a, b) ==
    a \o SelectSeq(b, LAMBDA key : \A i \in 1..Len(a) : a[i] # key)

compareStyles(pencil, code, opts, elementPath) ==
    LET ignoreProps == IgnoreProps(opts)
        tolerance == OrZero(opts.tolerance)
        colorTolerance == OrZero(opts.colorTolerance)
        contentDiffs ==
            IF "content" \notin ignoreProps /\ ~StrictEq(pencil.content, code.content)
            THEN << [path |-> elementPath, property |-> "content",
                     pencilValue |-> pencil.content, codeValue |-> code.content,
                     diff |-> [k |-> "undef", n |-> 0, d |-> 1], severity |-> "error"] >>
            ELSE <<>>
        allProps == KeyUnion(StyleKeys(pencil.styles), StyleKeys(code.styles))
        differing == SelectSeq(allProps, LAMBDA prop :
                        /\ prop \notin ignoreProps
                        /\ ~compareStyleProperty(prop, StyleGet(pencil.styles, prop),
                                StyleGet(code.styles, prop), tolerance, colorTolerance))
    IN  contentDiffs \o
        [i \in 1..Len(differing) |->
            [path |-> elementPath, property |-> differing[i],
             pencilValue |-> StyleGet(pencil.styles, differing[i]),
             codeValue |-> StyleGet(code.styles, differing[i]),
             diff |-> calculateDiff(StyleGet(pencil.styles, differing[i]),
                                    StyleGet(code.styles, differing[i])),
             severity |-> getSeverity(differing[i], opts)]]

---------------------------------------------------------------------------
(* core/compare.ts                                                         *)

\* the parts generateSuggestion joins: the quoted content, then a word for
\* the element type
generateSuggestion(element) ==
    (IF Truthy(element.content) THEN <<element.content.s>> ELSE <<>>) \o
    (IF element.type \in {"text", "button", "container"} THEN <<element.type>> ELSE <<>>)

\* the alignment loop: for each design path in key order, the path itself
\* when the code has it, otherwise the first code path that is equivalent
\* by name; pathMatches is a function from the aligned design paths
AlignedCodePath(pencilPath, codeByPath) ==
    LET codeKeys == IndexKeys(codeByPath)
        hits == {i \in 1..Len(codeKeys) :
                    arePathsEquivalentByName(pencilPath, codeKeys[i], "mapPencilNameToCode")}
    IN  IF IndexHas(codeByPath, pencilPath) THEN <<pencilPath>>
        ELSE IF hits # {} THEN <<codeKeys[CHOOSE i \in hits : \A j \in hits : i <= j]>>
        ELSE <<>>

ComputePathMatches(pencilByPath, codeByPath) ==
    LET aligned == {q \in {pencilByPath[i][1] : i \in 1..Len(pencilByPath)} :
                        AlignedCodePath(q, codeByPath) # <<>>}
    IN  [q \in aligned |-> AlignedCodePath(q, codeByPath)[1]]

\* new Set([...Object.keys(pencilByPath), ...Object.keys(codeByPath)])
AllPaths(pencilByPath, codeByPath) ==
    KeyUnion(IndexKeys(pencilByPath), IndexKeys(codeByPath))

EmptySummary ==
    [totalElements |-> 0, matchedElements |-> 0, missingElements |-> 0,
     extraElements |-> 0, styleDiffs |-> 0,
     matchRate |-> [num |-> 0, den |-> 1], status |-> "pass"]

EmptyResult ==
    [matches |-> <<>>, missingInCode |-> <<>>, extraInCode |-> <<>>,
     styleDiffs |-> <<>>, summary |-> EmptySummary]

\* a plausible slip: the extra elements left out of the total
totalElements_withoutExtra(res) ==
    Len(res.matches) + Len(res.missingInCode)

totalElements(res) ==
    Len(res.matches) + Len(res.missingInCode) + Len(res.extraInCode)

\* a plausible slip: the threshold left at 0.8, so that content matches
\* (0.7) are not counted
matchedElements_threshold08(res) ==
    Len(SelectSeq(res.matches, LAMBDA m : 10 * m.confidence.num >= 8 * m.confidence.den))

\* matches.filter(m => m.confidence >= 0.5).length
matchedElements(res) ==
    Len(SelectSeq(res.matches, LAMBDA m : 2 * m.confidence.num >= m.confidence.den))

\* d => d.severity === 'error', counted over a list of entries
ErrorCount(entries) == Len(SelectSeq(entries, LAMBDA d : d.severity = "error"))

\* a plausible slip: an error-severity extra element only warns
summaryStatus_extraOnlyWarns(missingErrors, styleErrors, extraErrors, extraCount) ==
    IF missingErrors > 0 \/ styleErrors > 0 THEN "fail"
    ELSE IF extraCount > 0 THEN "warning"
    ELSE "pass"

\* the status chain of calculateSummary
summaryStatus(missingErrors, styleErrors, extraErrors, extraCount) ==
    IF missingErrors > 0 \/ styleErrors > 0 THEN "fail"
    ELSE IF extraErrors > 0 THEN "fail"
    ELSE IF extraCount > 0 THEN "warning"
    ELSE "pass"

\* matchRate is the fraction num/den
calculateSummary(res) ==
    [totalElements |-> totalElements(res),
     matchedElements |-> matchedElements(res),
     missingElements |-> ErrorCount(res.missingInCode),
     extraElements |-> ErrorCount(res.extraInCode),
     styleDiffs |-> ErrorCount(res.styleDiffs),
     matchRate |-> IF totalElements(res) > 0
                   THEN [num |-> matchedElements(res) * 100, den |-> totalElements(res)]
                   ELSE [num |-> 100, den |-> 1],
     status |-> summaryStatus(ErrorCount(res.missingInCode), ErrorCount(res.styleDiffs),
                              ErrorCount(res.extraInCode), Len(res.extraInCode))]

\* the content-fallback pair recorded for a design/code pair
ContentMatch(path, pencilEl, codeEl) ==
    [path |-> path, pencil |-> pencilEl, code |-> codeEl,
     confidence |-> [num |-> 7, den |-> 10],
     propertiesMatch |-> << <<"content", TRUE>> >>,
     matchMethod |-> "content"]

\* pathMatches[path] || path
ActualCodePath(pm, path) == IF path \in DOMAIN pm THEN pm[path] ELSE path

\* the branch the loop body takes at a path
PathCase(pencilEls, codeEls, pm, path) ==
    LET hasPencil == IndexHas(indexByPath(pencilEls), path)
        hasCode == IndexHas(indexByPath(codeEls), ActualCodePath(pm, path))
    IN  IF hasPencil /\ ~hasCode THEN "pencilOnly"
        ELSE IF hasCode /\ ~hasPencil THEN "codeOnly"
        ELSE IF hasPencil /\ hasCode THEN "both"
        ELSE "neither"

\* one iteration of the per-path loop of compareStructures; st is the
\* record [result, matchedPencilIds, matchedCodeIds] of the loop's state
ClassifyStep(st, path, pencilEls, codeEls, opts, pm) ==
    LET pencilByPath == indexByPath(pencilEls)
        codeByPath == indexByPath(codeEls)
        actualCodePath == ActualCodePath(pm, path)
        kase == PathCase(pencilEls, codeEls, pm, path)
        pencilEl == IndexGet(pencilByPath, path)
        codeEl == IndexGet(codeByPath, actualCodePath)
        codeByContent == codeEls
        pencilByContent == pencilEls
        res == st.result
    IN  IF kase = "pencilOnly"
        THEN LET contentMatch == findMatchByContent(pencilEl, codeByContent, st.matchedCodeIds)
             IN  IF HasText(pencilEl) /\ contentMatch.ok
                 THEN [result |-> [res EXCEPT !.matches =
                            Append(@, ContentMatch(pencilEl.path, pencilEl, contentMatch.el))],
                       matchedPencilIds |-> st.matchedPencilIds \cup {pencilEl.id},
                       matchedCodeIds |-> st.matchedCodeIds \cup {contentMatch.el.id}]
                 ELSE [st EXCEPT !.result.missingInCode =
                            Append(@, [path |-> path, element |-> pencilEl, type |-> "missing",
                                       severity |-> "error",
                                       suggestion |-> generateSuggestion(pencilEl)])]
        ELSE IF kase = "codeOnly"
        THEN LET contentMatch == findMatchByContent(codeEl, pencilByContent, st.matchedPencilIds)
             IN  IF HasText(codeEl) /\ contentMatch.ok
                 THEN [result |-> [res EXCEPT !.matches =
                            Append(@, ContentMatch(codeEl.path, contentMatch.el, codeEl))],
                       matchedPencilIds |-> st.matchedPencilIds \cup {contentMatch.el.id},
                       matchedCodeIds |-> st.matchedCodeIds \cup {codeEl.id}]
                 ELSE [st EXCEPT !.result.extraInCode =
                            Append(@, [path |-> path, element |-> codeEl, type |-> "extra",
                                       severity |-> IF opts.severity = "strict"
                                                    THEN "error" ELSE "warning"])]
        ELSE IF kase = "both"
        THEN [result |-> [res EXCEPT
                    !.matches = Append(@, compareElements(pencilEl, codeEl, opts)),
                    !.styleDiffs = @ \o compareStyles(pencilEl, codeEl, opts, path)],
              matchedPencilIds |-> st.matchedPencilIds \cup {pencilEl.id},
              matchedCodeIds |-> st.matchedCodeIds \cup {codeEl.id}]
        ELSE st

RECURSIVE ClassifyAll(_, _, _, _, _, _)
\* the whole per-path loop over the paths still to visit
ClassifyAll(st, paths, pencilEls, codeEls, opts, pm) ==
    IF Len(paths) = 0 THEN st
    ELSE ClassifyAll(ClassifyStep(st, Head(paths), pencilEls, codeEls, opts, pm),
                     Tail(paths), pencilEls, codeEls, opts, pm)

\* compareStructures as a function of its arguments: the returned result
compareStructures(pencilEls, codeEls, opts) ==
    LET pencilByPath == indexByPath(pencilEls)
        codeByPath == indexByPath(codeEls)
        pm == ComputePathMatches(pencilByPath, codeByPath)
        st == ClassifyAll([result |-> EmptyResult, matchedPencilIds |-> {},
                           matchedCodeIds |-> {}],
                          AllPaths(pencilByPath, codeByPath), pencilEls, codeEls, opts, pm)
    IN  [st.result EXCEPT !.summary = calculateSummary(st.result)]

---------------------------------------------------------------------------
(* Inputs of compareStructures                                             *)

\* the largest number of children under the root of an input forest
MaxChildren == 2

s_label == <<"l", "a", "b", "e", "l">>

Element(id, type, path, content, styles, children) ==
    [id |-> id, type |-> type, path |-> path, content |-> content,
     styles |-> styles, children |-> children, independent |-> FALSE]

\* design children, as normalizePencilNode leaves them: [type, name, content, styles]
PencilKinds ==
    { [type |-> "text", name |-> s_title, content |-> Str(s_Hello),
       styles |-> << <<"fontSize", Num(16)>>, <<"color", Str(s_cyan)>> >>],
      [type |-> "text", name |-> s_greeting, content |-> Str(s_helloPad),
       styles |-> << <<"fontSize", Num(16)>> >>],
      [type |-> "container", name |-> s_welcomeMsg, content |-> Undef,
       styles |-> << <<"borderRadius", Num(4)>> >>],
      [type |-> "container", name |-> s_divider1, content |-> Undef,
       styles |-> <<>>] }

\* implementation children, as extractJSXElement leaves them
CodeKinds ==
    { [type |-> "text", name |-> s_title, content |-> Str(s_Hello),
       styles |-> << <<"fontSize", Num(17)>>, <<"color", Str(s_cyanNear)>> >>],
      [type |-> "text", name |-> s_label, content |-> Str(s_Hello),
       styles |-> <<>>],
      [type |-> "container", name |-> s_welcomeMessage, content |-> Undef,
       styles |-> << <<"borderRadius", Num(8)>> >>],
      [type |-> "container", name |-> s_divider, content |-> Undef,
       styles |-> <<>>] }

\* a forest of one root named Home whose children are of the given kinds,
\* each child at the path the build rule gives it; ids are side and position
Forest(side, kinds) ==
    << Element(<<side, 0>>, "container", s_Home, Undef, <<>>,
        [def |-> Len(kinds) > 0,
         v |-> [i \in 1..Len(kinds) |->
                  Element(<<side, i>>, kinds[i].type,
                          buildPath(s_Home, kinds[i].name, i - 1),
                          kinds[i].content, kinds[i].styles, NoChildren)]]) >>

PencilForests ==
    {<<>>} \cup {Forest("p", kinds) :
                    kinds \in UNION {[1..n -> PencilKinds] : n \in 0..MaxChildren}}

CodeForests ==
    {<<>>} \cup {Forest("c", kinds) :
                    kinds \in UNION {[1..n -> CodeKinds] : n \in 0..MaxChildren}}

Options(tolerance, colorTolerance, severity, ignoreProperties) ==
    [tolerance |-> tolerance, colorTolerance |-> colorTolerance,
     severity |-> severity, ignoreProperties |-> ignoreProperties]

NoIgnore == [def |-> FALSE, v |-> {}]

\* compareStructures(p, c) and compareStructures(p, c, {})
NoOptions == Options(Undef, Undef, "undef", NoIgnore)

\* the documented defaults, written out
DefaultOptions == Options(Num(1), Num(10), "normal", [def |-> TRUE, v |-> {}])

OptionValues ==
    { NoOptions,
      DefaultOptions,
      Options(Undef, Undef, "strict", [def |-> TRUE, v |-> {"borderRadius"}]),
      Options(Num(1), Undef, "lenient", [def |-> TRUE, v |-> {"fontSize", "content"}]) }

---------------------------------------------------------------------------
(* compareStructures as a state machine                                    *)

HarnessIdle ==
    /\ fn = "none"
    /\ args = <<>>
    /\ ret = [done |-> FALSE, val |-> FALSE]

CompareIdle ==
    /\ pencilElements = <<>>
    /\ codeElements = <<>>
    /\ options = NoOptions
    /\ pc = "idle"
    /\ pathMatches = <<>>
    /\ todo = <<>>
    /\ matchedPencilIds = {}
    /\ matchedCodeIds = {}
    /\ result = EmptyResult

\* normalizeCodeFile has not been called
FileIdle ==
    /\ fileInput = <<>>
    /\ filePc = "idle"
    /\ fileElements = <<>>
    /\ pendingRoots = <<>>
    /\ raised = FALSE
    /\ fileResult = [state |-> "none", value |-> <<>>]

\* processBatch has not been called
BatchIdle ==
    /\ components = <<>>
    /\ batchOptions = <<>>
    /\ batchPc = "idle"
    /\ batchIndex = 0
    /\ results = <<>>
    /\ workers = <<>>
    /\ processed = <<>>
    /\ batchResult = <<>>

Init ==
    /\ HarnessIdle
    /\ FileIdle
    /\ BatchIdle
    /\ pencilElements \in PencilForests
    /\ codeElements \in CodeForests
    /\ options \in OptionValues
    /\ pc = "start"
    /\ pathMatches = <<>>
    /\ todo = <<>>
    /\ matchedPencilIds = {}
    /\ matchedCodeIds = {}
    /\ result = EmptyResult

\* steps 1-5: index both forests, collect the paths, align the design paths
AlignPaths ==
    /\ pc = "start"
    /\ pathMatches' = ComputePathMatches(indexByPath(pencilElements), indexByPath(codeElements))
    /\ todo' = AllPaths(indexByPath(pencilElements), indexByPath(codeElements))
    /\ pc' = "classify"
    /\ UNCHANGED <<pencilElements, codeElements, options, matchedPencilIds,
                   matchedCodeIds, result>>
    /\ UNCHANGED <<harnessVars, fileVars, batchVars>>

\* one iteration of the per-path loop, taking the branch kase
Classify(kase) ==
    /\ pc = "classify"
    /\ Len(todo) > 0
    /\ PathCase(pencilElements, codeElements, pathMatches, Head(todo)) = kase
    /\ LET st == ClassifyStep([result |-> result, matchedPencilIds |-> matchedPencilIds,
                               matchedCodeIds |-> matchedCodeIds],
                              Head(todo), pencilElements, codeElements, options, pathMatches)
       IN  /\ result' = st.result
           /\ matchedPencilIds' = st.matchedPencilIds
           /\ matchedCodeIds' = st.matchedCodeIds
    /\ todo' = Tail(todo)
    /\ UNCHANGED <<pencilElements, codeElements, options, pc, pathMatches>>
    /\ UNCHANGED <<harnessVars, fileVars, batchVars>>

ClassifyPencilOnly == Classify("pencilOnly")

ClassifyCodeOnly == Classify("codeOnly")

ClassifyBoth == Classify("both")

\* result.summary = calculateSummary(result, options); return result
Summarize ==
    /\ pc = "classify"
    /\ Len(todo) = 0
    /\ result' = [result EXCEPT !.summary = calculateSummary(result)]
    /\ pc' = "done"
    /\ UNCHANGED <<pencilElements, codeElements, options, pathMatches, todo,
                   matchedPencilIds, matchedCodeIds>>
    /\ UNCHANGED <<harnessVars, fileVars, batchVars>>

Next ==
    \/ AlignPaths
    \/ ClassifyPencilOnly
    \/ ClassifyCodeOnly
    \/ ClassifyBoth
    \/ Summarize

Spec == Init /\ [][Next]_vars

---------------------------------------------------------------------------
(* Claims about compareStructures (specification Spec)                     *)

\* the entries of a list, as a set
Range(seq) == {seq[i] : i \in 1..Len(seq)}

\* C1: the summary status is 'fail' iff some missing element, some style
\* difference or some extra element has severity 'error'; otherwise it is
\* 'warning' iff there is an extra element; otherwise it is 'pass'.
C1_StatusRule ==
    pc = "done" =>
        LET anyError == \E d \in Range(result.missingInCode) \cup Range(result.styleDiffs)
                                  \cup Range(result.extraInCode) : d.severity = "error"
        IN  /\ result.summary.status = "fail" <=> anyError
            /\ result.summary.status = "warning" <=> (~anyError /\ result.extraInCode # <<>>)
            /\ result.summary.status = "pass" <=> (~anyError /\ result.extraInCode = <<>>)

\* a run that fails only because an extra element has severity 'error'
C1_Witness ==
    /\ pc = "done"
    /\ result.summary.status = "fail"
    /\ result.missingInCode = <<>>
    /\ \A d \in Range(result.styleDiffs) : d.severity # "error"
    /\ \E d \in Range(result.extraInCode) : d.severity = "error"

\* the design elements of the path index that have no path-aligned
\* implementation counterpart
Unaligned ==
    LET pencilByPath == indexByPath(pencilElements)
        codeByPath == indexByPath(codeElements)
        pm == ComputePathMatches(pencilByPath, codeByPath)
    IN  {pencilByPath[i][2] : i \in {j \in 1..Len(pencilByPath) :
            ~IndexHas(codeByPath, ActualCodePath(pm, pencilByPath[j][1]))}}

\* C2: a design element with non-empty text and no path-aligned counterpart,
\* and an implementation element at a different path with the same trimmed,
\* lower-cased text and the same kind, are recorded as one matched pair with
\* confidence 0.7 and the content method, and neither is reported as
\* missing or as extra.
C2_ContentFallbackPair ==
    pc = "done" =>
        \A d \in Unaligned : \A c \in Range(Flatten(codeElements)) :
            (/\ HasText(d) /\ HasText(c)
             /\ c.path # d.path
             /\ ContentKey(c) = ContentKey(d)
             /\ c.type = d.type)
            => /\ \E m \in Range(result.matches) :
                    /\ m.pencil = d /\ m.code = c
                    /\ m.confidence = [num |-> 7, den |-> 10]
                    /\ m.matchMethod = "content"
               /\ \A e \in Range(result.missingInCode) : e.element # d
               /\ \A e \in Range(result.extraInCode) : e.element # c

\* C4: totalElements is the sum of the raw lengths of the three lists.
C4_TotalIsRawLengths ==
    pc = "done" =>
        result.summary.totalElements =
            Cardinality(DOMAIN result.matches) + Cardinality(DOMAIN result.missingInCode)
                + Cardinality(DOMAIN result.extraInCode)

\* a run whose lists hold a low-confidence pair, a missing element and a
\* warning-severity extra element, all of which are counted
C4_Witness ==
    /\ pc = "done"
    /\ \E m \in Range(result.matches) : 2 * m.confidence.num < m.confidence.den
    /\ result.missingInCode # <<>>
    /\ \E d \in Range(result.extraInCode) : d.severity = "warning"
    /\ result.summary.totalElements >= 3

\* C5: matchedElements counts the pairs of confidence >= 0.5, matchRate is
\* matchedElements / totalElements * 100 (100 when totalElements is 0), and
\* matchRate lies within [0, 100].
C5_MatchRate ==
    pc = "done" =>
        LET sum == result.summary
            counted == {i \in DOMAIN result.matches :
                            result.matches[i].confidence.num * 2
                                >= result.matches[i].confidence.den}
        IN  /\ sum.matchedElements = Cardinality(counted)
            /\ sum.matchRate.den > 0
            /\ sum.totalElements = 0 => sum.matchRate.num = 100 * sum.matchRate.den
            /\ sum.totalElements > 0 =>
                    sum.matchRate.num * sum.totalElements
                        = sum.matchedElements * 100 * sum.matchRate.den
            /\ 0 <= sum.matchRate.num
            /\ sum.matchRate.num <= 100 * sum.matchRate.den

\* a run with a content-fallback pair (0.7, counted) and a pair below 0.5
\* (not counted)
C5_Witness ==
    /\ pc = "done"
    /\ \E m \in Range(result.matches) : m.confidence = [num |-> 7, den |-> 10]
    /\ \E m \in Range(result.matches) : 2 * m.confidence.num < m.confidence.den
    /\ result.summary.matchedElements < Len(result.matches)
    /\ result.summary.matchedElements > 0

\* the options a call gets when the documented defaults replace every
\* omitted field
WithDocumentedDefaults(opts) ==
    [tolerance |-> IF IsUndef(opts.tolerance) THEN Num(1) ELSE opts.tolerance,
     colorTolerance |-> IF IsUndef(opts.colorTolerance) THEN Num(10) ELSE opts.colorTolerance,
     severity |-> IF opts.severity = "undef" THEN "normal" ELSE opts.severity,
     ignoreProperties |-> IF opts.ignoreProperties.def THEN opts.ignoreProperties
                          ELSE [def |-> TRUE, v |-> {}]]

\* C6: a call with options or fields omitted returns the matches,
\* differences and verdict of the call with tolerance 1, colorTolerance 10,
\* severity 'normal' and ignoreProperties [] in their place.
C6_DefaultsApply ==
    pc = "done" =>
        result = compareStructures(pencilElements, codeElements,
                                   WithDocumentedDefaults(options))

---------------------------------------------------------------------------
(* The pure functions, each applied once to inputs drawn by Init           *)

Pending == [done |-> FALSE, val |-> FALSE]

Returned(val) == [done |-> TRUE, val |-> val]

\* the call of fn has not returned yet: apply it
Apply(name, val) ==
    /\ fn = name
    /\ ~ret.done
    /\ ret' = Returned(val)
    /\ UNCHANGED <<fn, args>>
    /\ UNCHANGED <<compareVars, fileVars, batchVars>>

(* colorsEqual *)

ColorInputs ==
    {s_black, s_near, s_nearLower, s_nearNoHash, s_short, s_red, s_cyan, s_cyanNear,
     s_rgbaCyanBg, s_empty}

\* the largest colour tolerance tried beyond the fixed ones
MaxTolerance == 20

ToleranceInputs == {-1, 0, 10, 442} \cup {MaxTolerance}

InitColor ==
    /\ CompareIdle
    /\ FileIdle
    /\ BatchIdle
    /\ fn = "colorsEqual"
    /\ args \in [color1 : ColorInputs, color2 : ColorInputs, tolerance : ToleranceInputs]
    /\ ret = Pending

ApplyColorsEqual ==
    Apply("colorsEqual", colorsEqual(args.color1, args.color2, args.tolerance))

NextColor == ApplyColorsEqual

SpecColor == InitColor /\ [][NextColor]_vars

\* C7: colorsEqual is true for identical strings and otherwise true iff the
\* colour distance is at most the tolerance, for every tolerance >= 0; so
\* '#000000' and '#0A0A0A' (squared distance 300) differ at tolerance 10
\* and are equal at tolerance 20.
C7_ColorsEqualRule ==
    (fn = "colorsEqual" /\ ret.done) =>
        /\ ret.val = (\/ args.color1 = args.color2
                      \/ colorDistanceSq(args.color1, args.color2)
                            <= args.tolerance * args.tolerance)
        /\ (args.color1 = s_black /\ args.color2 = s_near) =>
                /\ colorDistanceSq(args.color1, args.color2) = 300
                /\ args.tolerance = 10 => ret.val = FALSE
                /\ args.tolerance = 20 => ret.val = TRUE

(* valuesEqual *)

ValueInputs ==
    {Undef, Num(400), Num(401), Num(402), Num(700), Str(s_normal), Str(s_400), Str(s_700),
     Str(s_bold), Str(s_Bold), Str(s_400px)}

\* the largest scalar tolerance tried
MaxScalarTolerance == 2

PropertyHints == {"fontWeight", "fontSize", "undef"}

InitValues ==
    /\ CompareIdle
    /\ FileIdle
    /\ BatchIdle
    /\ fn = "valuesEqual"
    /\ args \in [val1 : ValueInputs, val2 : ValueInputs,
                 tolerance : 0..MaxScalarTolerance, property : PropertyHints]
    /\ ret = Pending

ApplyValuesEqual ==
    Apply("valuesEqual", valuesEqual(args.val1, args.val2, args.tolerance, args.property))

NextValues == ApplyValuesEqual

SpecValues == InitValues /\ [][NextValues]_vars

\* a weight the claim calls parsable: a number, 'normal', or a string of
\* decimal digits
ParsableWeight(v) ==
    \/ IsNum(v)
    \/ IsStr(v) /\ v.s = s_normal
    \/ IsStr(v) /\ Len(v.s) > 0 /\ \A i \in 1..Len(v.s) : IsDigit(v.s[i])

\* the integer a parsable weight stands for
WeightOf(v) ==
    IF IsNum(v) THEN v.n
    ELSE IF v.s = s_normal THEN 400
    ELSE DigitsValue(v.s, 0)

\* C8: with the hint 'fontWeight', 'normal' is 400 and numeric strings are
\* their integer value, compared exactly: 'normal' vs 400 is equal in either
\* order at every tolerance, and the outcome for two parsable weights does
\* not depend on the tolerance.
C8_FontWeightExact ==
    (fn = "valuesEqual" /\ ret.done /\ args.property = "fontWeight") =>
        /\ ({args.val1, args.val2} = {Str(s_normal), Num(400)}) => ret.val = TRUE
        /\ (ParsableWeight(args.val1) /\ ParsableWeight(args.val2)) =>
                /\ ret.val = (WeightOf(args.val1) = WeightOf(args.val2))
                /\ \A t \in 0..MaxScalarTolerance :
                        valuesEqual(args.val1, args.val2, t, "fontWeight") = ret.val

\* 'normal' has been compared with 400 at tolerance 0, and found equal
C8_Witness ==
    /\ fn = "valuesEqual" /\ ret.done /\ args.property = "fontWeight"
    /\ args.val1 = Str(s_normal) /\ args.val2 = Num(400) /\ args.tolerance = 0
    /\ ret.val = TRUE

(* arePathsEquivalentByName *)

s_header_divider1_0 == buildPath(s_header, s_divider1, 0)

s_header_divider2_1 == buildPath(s_header, s_divider2, 1)

s_header_divider_0 == buildPath(s_header, s_divider, 0)

\* the deepest nesting of the paths tried, in segments below the root
MaxDepth == 2

RECURSIVE PathsBelow(_, _)
\* the paths of at most depth further segments below the paths of parents
PathsBelow(parents, depth) ==
    IF depth = 0 THEN parents
    ELSE parents \cup
         PathsBelow({buildPath(q, name, index) :
                        q \in parents,
                        name \in {s_divider, s_divider1, s_divider2, s_settingsButton,
                                  s_SettingsDropdown},
                        index \in 0..1}, depth - 1)

PathInputs == PathsBelow({s_header, s_Home}, MaxDepth)

\* implementation paths nested deeper than the design paths
DeepCodePaths ==
    {buildPath(buildPath(buildPath(s_header, s_headerActions, 1),
                         s_settingsIndicatorContainer, 0), s_SettingsDropdown, 0),
     buildPath(buildPath(s_header, s_headerActions, 0), s_divider, 2)}

InitPath ==
    /\ CompareIdle
    /\ FileIdle
    /\ BatchIdle
    /\ fn = "arePathsEquivalentByName"
    /\ args \in [pencilPath : PathsBelow({s_header}, MaxDepth) ,
                 codePath : PathsBelow({s_header, s_Home}, 1) \cup DeepCodePaths,
                 nameMapping : {"none", "mapPencilNameToCode"}]
    /\ ret = Pending

ApplyPathsEquivalent ==
    Apply("arePathsEquivalentByName",
          arePathsEquivalentByName(args.pencilPath, args.codePath, args.nameMapping))

NextPath == ApplyPathsEquivalent

SpecPath == InitPath /\ [][NextPath]_vars

\* C9: with the comparator's alias function, 'header > divider1[0]' and
\* 'header > divider2[1]' are each equivalent by name to
\* 'header > divider[0]'.
C9_NumericSuffixAlias ==
    (/\ fn = "arePathsEquivalentByName" /\ ret.done
     /\ args.nameMapping = "mapPencilNameToCode"
     /\ args.pencilPath \in {s_header_divider1_0, s_header_divider2_1}
     /\ args.codePath = s_header_divider_0)
    => ret.val = TRUE

---------------------------------------------------------------------------
(* normalizers/pencil.ts                                                   *)
(* A PencilNode is [id, type, name, content, fill, stroke, fontSize,       *)
(* fontWeight, padding, gap, borderRadius, cornerRadius, width, height,    *)
(* children]: type is a string, stroke is [def, fill, thickness], children *)
(* is [def, v], every other field a value (undefined when absent).  The    *)
(* layout and the metadata other than isIndependentComponent are copied    *)
(* through by the normalizers and read by no comparison; they are left out *)
(* of the element.                                                         *)

s_text == <<"t", "e", "x", "t">>
s_frame == <<"f", "r", "a", "m", "e">>
s_rectangle == <<"r", "e", "c", "t", "a", "n", "g", "l", "e">>
s_ellipse == <<"e", "l", "l", "i", "p", "s", "e">>
s_group == <<"g", "r", "o", "u", "p">>
s_line == <<"l", "i", "n", "e">>
s_path == <<"p", "a", "t", "h">>
s_icon_font == <<"i", "c", "o", "n", "_", "f", "o", "n", "t">>
s_image == <<"i", "m", "a", "g", "e">>
s_connection == <<"c", "o", "n", "n", "e", "c", "t", "i", "o", "n">>
s_note == <<"n", "o", "t", "e">>
s_ref == <<"r", "e", "f">>
s_rgbaZero == <<"r", "g", "b", "a", "(", "0", ",", "0", ",", "0", ",", "0", ")">>
s_white == <<"#", "F", "F", "F", "F", "F", "F">>
s_whiteNear == <<"#", "F", "F", "F", "F", "F", "A">>
s_whiteNoHash == <<"F", "F", "F", "F", "F", "F">>
s_HeaderTitle == <<"H", "e", "a", "d", "e", "r", " ", "T", "i", "t", "l", "e", "2">>

typeMap ==
    <<  <<s_text, "text">>, <<s_frame, "container">>, <<s_rectangle, "container">>,
        <<s_ellipse, "container">>, <<s_group, "container">>, <<s_line, "container">>,
        <<s_path, "container">>, <<s_icon_font, "icon">>, <<s_image, "image">>,
        <<s_connection, "container">>, <<s_note, "container">>, <<s_ref, "container">> >>

mapPencilTypeToStandard(pencilType) ==
    LET hits == {i \in 1..Len(typeMap) : typeMap[i][1] = pencilType}
    IN  IF hits = {} THEN "container" ELSE typeMap[CHOOSE i \in hits : TRUE][2]

\* the index after the longest run of decimal digits of s that starts at j
DigitRunEnd(s, j) ==
    LET stops == {k \in j..Len(s) : ~IsDigit(s[k])}
    IN  IF stops = {} THEN Len(s) + 1 ELSE CHOOSE k \in stops : \A l \in stops : k <= l

\* the index after the longest run of white space of s that starts at j
SpaceRunEnd(s, j) ==
    LET stops == {k \in j..Len(s) : s[k] # " "}
    IN  IF stops = {} THEN Len(s) + 1 ELSE CHOOSE k \in stops : \A l \in stops : k <= l

\* the index after the longest run of [\d.] of s that starts at j
NumDotRunEnd(s, j) ==
    LET stops == {k \in j..Len(s) : ~(IsDigit(s[k]) \/ s[k] = ".")}
    IN  IF stops = {} THEN Len(s) + 1 ELSE CHOOSE k \in stops : \A l \in stops : k <= l

\* s has the character c at index j
CharAt(s, j, c) == j <= Len(s) /\ s[j] = c

NoGroup == [ok |-> FALSE, text |-> <<>>]

\* ([\d.]+)\) from index a1 of s, ending at a2: the text of the group
RgbaAlphaGroup(s, a1, a2) ==
    IF a2 > a1 /\ CharAt(s, a2, ")")
    THEN [ok |-> TRUE, text |-> SubSeq(s, a1, a2 - 1)]
    ELSE NoGroup

\* (\d+),\s* from index j of s, the digits ending at e: the index after it,
\* 0 when it does not match
RgbaNumber(s, j, e) ==
    IF e > j /\ CharAt(s, e, ",") THEN SpaceRunEnd(s, e + 1) ELSE 0

\* the rest of the pattern from the index after the first number and its
\* comma (0: no match so far)
RgbaFromAlpha(s, a1) ==
    IF a1 = 0 THEN NoGroup
    ELSE RgbaAlphaGroup(s, a1, NumDotRunEnd(s, a1))

RgbaFromBlue(s, b1) ==
    IF b1 = 0 THEN NoGroup
    ELSE RgbaFromAlpha(s, RgbaNumber(s, b1, DigitRunEnd(s, b1)))

RgbaFromGreen(s, g1) ==
    IF g1 = 0 THEN NoGroup
    ELSE RgbaFromBlue(s, RgbaNumber(s, g1, DigitRunEnd(s, g1)))

\* \( and the rest from index p of s
RgbaFromParen(s, p) ==
    IF CharAt(s, p, "(")
    THEN RgbaFromGreen(s, RgbaNumber(s, p + 1, DigitRunEnd(s, p + 1)))
    ELSE NoGroup

\* /rgba?\((\d+),\s*(\d+),\s*(\d+),\s*([\d.]+)\)/ tried at index i of s:
\* the text of the fourth group when it matches there
MatchRgbaAt(s, i) ==
    IF i >= 1 /\ i + 2 <= Len(s) /\ SubSeq(s, i, i + 2) = <<"r", "g", "b">>
    THEN RgbaFromParen(s, IF CharAt(s, i + 3, "a") THEN i + 4 ELSE i + 3)
    ELSE NoGroup

\* the least index of a set of indices, 0 when there is none
LeastIndex(hits) == IF hits = {} THEN 0 ELSE CHOOSE i \in hits : \A j \in hits : i <= j

\* strokeColor.match(...): the fourth group of the leftmost match
MatchRgba(s) ==
    MatchRgbaAt(s, LeastIndex({i \in 1..Len(s) : MatchRgbaAt(s, i).ok}))

RECURSIVE Pow10(_)
Pow10(k) == IF k = 0 THEN 1 ELSE 10 * Pow10(k - 1)

\* the number with the integer digits int and the fraction digits frac
DecimalOf(int, frac) ==
    IF Len(int) = 0 /\ Len(frac) = 0 THEN [nan |-> TRUE, num |-> 0, den |-> 1]
    ELSE [nan |-> FALSE,
          num |-> DigitsValue(int, 0) * Pow10(Len(frac)) + DigitsValue(frac, 0),
          den |-> Pow10(Len(frac))]

\* the digits after the point that follows the integer digits of t
FractionDigits(t, intLen) ==
    IF intLen < Len(t) /\ t[intLen + 1] = "."
    THEN DigitPrefix(SubSeq(t, intLen + 2, Len(t)))
    ELSE <<>>

\* parseFloat of a text of digits and dots: the number num / den, or NaN
parseFloat(t) == DecimalOf(DigitPrefix(t), FractionDigits(t, Len(DigitPrefix(t))))

\* alpha < 0.05 (false for NaN)
BelowFivePercent(alpha) == ~alpha.nan /\ 100 * alpha.num < 5 * alpha.den

\* both colours parse as hex and are less than 10 apart
HexWithinTen(strokeRgb, bgRgb) ==
    strokeRgb.ok /\ bgRgb.ok /\ RgbDistanceSq(strokeRgb, bgRgb) < 100

\* the four cases, for a stroke colour that is a non-empty string
InvisibleCases(name, strokeColor, backgroundColor, match) ==
    \/ /\ StartsWith(strokeColor, s_rgba)
       /\ match.ok
       /\ BelowFivePercent(parseFloat(match.text))
    \/ /\ Truthy(backgroundColor)
       /\ strokeColor = backgroundColor.s
    \/ /\ Truthy(backgroundColor)
       /\ StartsWith(strokeColor, <<"#">>) /\ StartsWith(backgroundColor.s, <<"#">>)
       /\ HexWithinTen(hexToRgb(strokeColor), hexToRgb(backgroundColor.s))
    \/ /\ name \in {Str(s_settingsButton), Str(s_settingsIndicator)}
       /\ Truthy(backgroundColor) /\ Includes(backgroundColor.s, s_rgbaCyanPrefix)
       /\ strokeColor = s_cyan

isInvisibleStroke(node, backgroundColor) ==
    IF ~node.stroke.def \/ ~Truthy(node.stroke.fill) THEN FALSE
    ELSE InvisibleCases(node.name, node.stroke.fill.s, backgroundColor,
                        MatchRgba(node.stroke.fill.s))

\* styles[key] = value when the condition holds
SetIf(cond, styles, key, value) == IF cond THEN StyleSet(styles, key, value) ELSE styles

\* the border of a stroke that is not invisible
StrokeStyles(styles, stroke, visible) ==
    IF visible
    THEN StyleSet(StyleSet(styles, "borderColor", stroke.fill), "borderWidth",
                  stroke.thickness)
    ELSE styles

\* the fill of a node is recorded as its background colour
IsBackground(node) == ~IsUndef(node.fill) /\ node.type \in {s_frame, s_rectangle}

\* backgroundColor of extractPencilStyles
BackgroundOf(node) == IF IsBackground(node) THEN node.fill ELSE Undef

\* the font and fill part of extractPencilStyles
FillStyles(node) ==
    SetIf(IsBackground(node),
        SetIf(~IsUndef(node.fill) /\ node.type = s_text,
            SetIf(~IsUndef(node.fontWeight),
                SetIf(~IsUndef(node.fontSize), <<>>, "fontSize", node.fontSize),
                "fontWeight", node.fontWeight),
            "color", node.fill),
        "backgroundColor", node.fill)

\* the box part of extractPencilStyles, added to styles
BoxStyles(styles, node) ==
    SetIf(~IsUndef(node.height),
        SetIf(~IsUndef(node.width),
            SetIf(~IsUndef(node.cornerRadius),
                SetIf(~IsUndef(node.borderRadius),
                    SetIf(~IsUndef(node.gap),
                        SetIf(~IsUndef(node.padding), styles, "padding", node.padding),
                        "gap", node.gap),
                    "borderRadius", node.borderRadius),
                "borderRadius", node.cornerRadius),
            "width", node.width),
        "height", node.height)

extractPencilStyles(node) ==
    BoxStyles(StrokeStyles(FillStyles(node), node.stroke,
                           /\ node.stroke.def
                           /\ ~IsUndef(node.stroke.fill)
                           /\ ~isInvisibleStroke(node, BackgroundOf(node))),
              node)

\* name.replace(/\d+$/, '').replace(/[^a-zA-Z0-9]/g, '')
\*     .replace(/^[A-Z]/, char => char.toLowerCase())
normalizePencilName(name) ==
    LET withoutSuffix == stripNumericSuffix(name)
        alnum == SelectSeq(withoutSuffix, LAMBDA c : IsUpper(c) \/ IsLower(c) \/ IsDigit(c))
    IN  IF Len(alnum) = 0 THEN alnum
        ELSE <<LowerChar(alnum[1])>> \o Tail(alnum)

\* generateId(prefix): a fresh random id, named in the model by the place
\* in the tree it is generated for
generateId(prefix, path) == <<"generated", prefix, path>>

\* a plausible slip: the children of an independent component are walked
DescendsInto_evenIndependent(isIndependent, children) ==
    children.def /\ Len(children.v) > 0

\* whether the children of a node are normalized: not for an independent
\* component, and only when there are children
DescendsInto(isIndependent, children) ==
    ~isIndependent /\ children.def /\ Len(children.v) > 0

\* the path of the element of a node: the name of a named text node is
\* normalized, a node without a name goes by its type
PencilPath(node, parentPath, index) ==
    buildPath(parentPath,
              IF node.type = s_text /\ Truthy(node.name)
              THEN normalizePencilName(node.name.s)
              ELSE IF Truthy(node.name) THEN node.name.s ELSE node.type,
              index)

\* isIndependent of normalizePencilNode
IsIndependentNode(node) ==
    IF Truthy(node.name) THEN isIndependentComponent(node.name.s) ELSE FALSE

\* the element of a node, given its path, its type and its children
PencilElement(node, currentPath, elementType, children) ==
    [id |-> IF Truthy(node.id) THEN node.id.s ELSE generateId(elementType, currentPath),
     type |-> elementType,
     path |-> currentPath,
     content |-> node.content,
     styles |-> extractPencilStyles(node),
     children |-> children,
     independent |-> IsIndependentNode(node)]

RECURSIVE normalizePencilNode(_, _, _)
RECURSIVE NormalizeChildren(_, _)

\* node.children.map((child, idx) => normalizePencilNode(child, currentPath, idx))
NormalizeChildren(children, currentPath) ==
    [def |-> TRUE,
     v |-> [i \in 1..Len(children) |-> normalizePencilNode(children[i], currentPath, i - 1)]]

normalizePencilNode(node, parentPath, index) ==
    PencilElement(node, PencilPath(node, parentPath, index),
                  mapPencilTypeToStandard(node.type),
                  IF DescendsInto(IsIndependentNode(node), node.children)
                  THEN NormalizeChildren(node.children.v, PencilPath(node, parentPath, index))
                  ELSE NoChildren)

\* a PencilFrame is [id, name, fill, cornerRadius, gap, padding, children]
normalizePencilFrame(frame) ==
    LET s1 == SetIf(Truthy(frame.fill), <<>>, "backgroundColor", frame.fill)
        s2 == SetIf(~IsUndef(frame.cornerRadius), s1, "borderRadius", frame.cornerRadius)
        s3 == SetIf(~IsUndef(frame.gap), s2, "gap", frame.gap)
        s4 == SetIf(~IsUndef(frame.padding), s3, "padding", frame.padding)
    IN  << [id |-> frame.id,
            type |-> "container",
            path |-> frame.name,
            content |-> Undef,
            styles |-> s4,
            children |->
                IF frame.children.def
                THEN NormalizeChildren(frame.children.v, frame.name)
                ELSE NoChildren,
            independent |-> FALSE] >>

---------------------------------------------------------------------------
(* normalizers/code.ts                                                     *)
(* The syntax tree of the parser, as far as the normalizer reads it.  A    *)
(* JSXElement is [name, attributes, children]; name is [kind, name,        *)
(* object]; an attribute is [kind, name, value] with value [kind, value,   *)
(* expression]; an expression is [kind, property, parts, quasis,           *)
(* properties]; a child is [kind, value, expression, element].  The        *)
(* stylesheet is the list of <<class name, styles>> the CSS parser         *)
(* returns.                                                                *)

s_div == <<"d", "i", "v">>
s_span == <<"s", "p", "a", "n">>
s_px == <<"p", "x">>
s_rem == <<"r", "e", "m">>
s_em == <<"e", "m">>
s_percent == <<"%">>
s_16px == <<"1", "6", "p", "x">>
s_1p5rem == <<"1", ".", "5", "r", "e", "m">>
s_1p50 == <<"1", ".", "5", "0">>
s_dot == <<".">>
s_active == <<"a", "c", "t", "i", "v", "e">>
s_homeView == <<"h", "o", "m", "e", "V", "i", "e", "w">>
s_twoClasses == <<"t", "i", "t", "l", "e", " ", " ", "a", "c", "t", "i", "v", "e">>
s_styled == <<"s", "t", "y", "l", "e", "d">>

TAG_TYPE_MAP ==
    <<
        <<<<"s", "p", "a", "n">>, "text">>,
        <<<<"p">>, "text">>,
        <<<<"h", "1">>, "text">>,
        <<<<"h", "2">>, "text">>,
        <<<<"h", "3">>, "text">>,
        <<<<"h", "4">>, "text">>,
        <<<<"h", "5">>, "text">>,
        <<<<"h", "6">>, "text">>,
        <<<<"a">>, "text">>,
        <<<<"s", "t", "r", "o", "n", "g">>, "text">>,
        <<<<"e", "m">>, "text">>,
        <<<<"s", "m", "a", "l", "l">>, "text">>,
        <<<<"d", "i", "v">>, "container">>,
        <<<<"s", "e", "c", "t", "i", "o", "n">>, "container">>,
        <<<<"a", "r", "t", "i", "c", "l", "e">>, "container">>,
        <<<<"m", "a", "i", "n">>, "container">>,
        <<<<"h", "e", "a", "d", "e", "r">>, "container">>,
        <<<<"f", "o", "o", "t", "e", "r">>, "container">>,
        <<<<"n", "a", "v">>, "container">>,
        <<<<"a", "s", "i", "d", "e">>, "container">>,
        <<<<"b", "u", "t", "t", "o", "n">>, "button">>,
        <<<<"i", "n", "p", "u", "t">>, "input">>,
        <<<<"t", "e", "x", "t", "a", "r", "e", "a">>, "input">>,
        <<<<"s", "e", "l", "e", "c", "t">>, "input">>,
        <<<<"i", "m", "g">>, "image">>,
        <<<<"s", "v", "g">>, "icon">>,
        <<<<"i">>, "icon">> >>

getTagName(openingElement) ==
    LET name == openingElement.name
    IN  IF name.kind = "none" THEN s_empty
        ELSE IF name.kind = "JSXIdentifier" THEN name.name
        ELSE IF name.kind = "JSXMemberExpression" /\ name.object.kind = "JSXIdentifier"
             THEN name.object.name
        ELSE s_empty

mapTagToElementType(tagName) ==
    LET hits == {i \in 1..Len(TAG_TYPE_MAP) : TAG_TYPE_MAP[i][1] = tagName}
    IN  IF hits = {} THEN "container" ELSE TAG_TYPE_MAP[CHOOSE i \in hits : TRUE][2]

RECURSIVE Concat(_)
\* the strings of a list, joined with nothing between them
Concat(parts) == IF parts = <<>> THEN <<>> ELSE Head(parts) \o Concat(Tail(parts))

RECURSIVE Join(_, _)
\* Array.prototype.join
Join(parts, sep) ==
    IF parts = <<>> THEN <<>>
    ELSE IF Len(parts) = 1 THEN parts[1]
    ELSE parts[1] \o sep \o Join(Tail(parts), sep)

\* the texts collectFromChild pushes for one child
collectFromChild(child) ==
    IF child.kind = "JSXText"
    THEN (IF Len(trim(child.value)) > 0 THEN <<trim(child.value)>> ELSE <<>>)
    ELSE IF child.kind = "JSXExpressionContainer"
    THEN (IF child.expression.kind = "StringLiteral" THEN <<child.expression.value>>
          ELSE IF child.expression.kind = "TemplateLiteral"
               THEN <<trim(Concat(child.expression.quasis))>>
          ELSE <<>>)
    ELSE <<>>

RECURSIVE CollectTexts(_)
CollectTexts(children) ==
    IF children = <<>> THEN <<>>
    ELSE collectFromChild(Head(children)) \o CollectTexts(Tail(children))

extractTextContent(node) ==
    LET texts == CollectTexts(node.children)
    IN  IF Len(texts) > 0 THEN Str(Join(texts, <<" ">>)) ELSE Undef

RECURSIVE extractClassNamesFromExpression(_)
\* the class names the walk of expr pushes, in order
extractClassNamesFromExpression(expr) ==
    IF expr.kind = "MemberExpression"
    THEN (IF expr.property.kind = "Identifier" THEN <<expr.property.name>> ELSE <<>>)
    ELSE IF expr.kind \in {"TemplateLiteral", "LogicalExpression", "ConditionalExpression",
                           "BinaryExpression"}
    THEN Concat([i \in 1..Len(expr.parts) |-> extractClassNamesFromExpression(expr.parts[i])])
    ELSE <<>>

\* the class names one attribute contributes
AttributeClassNames(attr) ==
    IF attr.kind = "JSXAttribute" /\ attr.name = "className"
    THEN (IF attr.value.kind = "StringLiteral"
          THEN SelectSeq(Split(attr.value.value, <<" ">>), LAMBDA part : Len(part) > 0)
          ELSE IF attr.value.kind = "JSXExpressionContainer"
               THEN extractClassNamesFromExpression(attr.value.expression)
          ELSE <<>>)
    ELSE <<>>

extractClassNames(openingElement) ==
    Concat([i \in 1..Len(openingElement.attributes) |->
                AttributeClassNames(openingElement.attributes[i])])

\* /^([\d.]+)(px|rem|em|%)?$/ and the conversion of its match
convertCSSValue(value) ==
    LET e == NumDotRunEnd(value, 1)
        unit == SubSeq(value, e, Len(value))
        num == parseFloat(SubSeq(value, 1, e - 1))
    IN  IF e > 1 /\ unit \in {s_empty, s_px, s_rem, s_em, s_percent}
        THEN (IF unit \in {s_empty, s_px}
              THEN (IF num.nan THEN NaNValue ELSE Dec(num.num, num.den))
              ELSE Str(value))
        ELSE Str(value)

\* cssStyles.get(className): the styles of the class, none when it has no rule
CssGet(cssStyles, className) ==
    LET hits == {i \in 1..Len(cssStyles) : cssStyles[i][1] = className}
    IN  IF hits = {} THEN [ok |-> FALSE, styles |-> <<>>]
        ELSE [ok |-> TRUE, styles |-> cssStyles[CHOOSE i \in hits : TRUE][2]]

RECURSIVE ObjectAssign(_, _)
\* Object.assign(styles, source)
ObjectAssign(styles, source) ==
    IF source = <<>> THEN styles
    ELSE ObjectAssign(StyleSet(styles, Head(source)[1], Head(source)[2]), Tail(source))

RECURSIVE InlineStyles(_, _)
\* the loop over the properties of a style object
InlineStyles(styles, properties) ==
    IF properties = <<>> THEN styles
    ELSE LET prop == Head(properties)
             next == IF prop.kind = "ObjectProperty" /\ prop.key.kind = "Identifier"
                     THEN (IF prop.value.kind = "StringLiteral"
                           THEN StyleSet(styles, prop.key.name, convertCSSValue(prop.value.value))
                           ELSE IF prop.value.kind = "NumericLiteral"
                                THEN StyleSet(styles, prop.key.name, prop.value.number)
                           ELSE styles)
                     ELSE styles
         IN  InlineStyles(next, Tail(properties))

\* the body of the loop of extractStyleFromProps for one attribute
AttributeStyles(styles, attr, cssStyles) ==
    IF attr.kind # "JSXAttribute" THEN styles
    ELSE LET expr == attr.value.expression
             fromClass ==
                IF /\ attr.name = "className"
                   /\ attr.value.kind = "JSXExpressionContainer"
                   /\ expr.kind = "MemberExpression" /\ expr.property.kind = "Identifier"
                   /\ CssGet(cssStyles, expr.property.name).ok
                THEN ObjectAssign(styles, CssGet(cssStyles, expr.property.name).styles)
                ELSE styles
         IN  IF /\ attr.name = "style"
                /\ attr.value.kind = "JSXExpressionContainer"
                /\ expr.kind = "ObjectExpression"
             THEN InlineStyles(fromClass, expr.properties)
             ELSE fromClass

RECURSIVE StylesOfAttributes(_, _, _)
StylesOfAttributes(styles, attributes, cssStyles) ==
    IF attributes = <<>> THEN styles
    ELSE StylesOfAttributes(AttributeStyles(styles, Head(attributes), cssStyles),
                            Tail(attributes), cssStyles)

extractStyleFromProps(openingElement, cssStyles) ==
    StylesOfAttributes(<<>>, openingElement.attributes, cssStyles)

CODE_CLASS_TO_PENCIL_NAME == << <<s_welcomeMessage, s_welcomeMsg>> >>

buildElementPath(tagName, classNames, parentPath, index) ==
    LET className == IF Len(classNames) > 0 THEN classNames[1] ELSE s_empty
        name == IF Len(className) > 0 THEN className ELSE tagName
        hits == {i \in 1..Len(CODE_CLASS_TO_PENCIL_NAME) :
                    CODE_CLASS_TO_PENCIL_NAME[i][1] = name}
        mappedName == IF hits = {} \/ Len(CODE_CLASS_TO_PENCIL_NAME[CHOOSE i \in hits : TRUE][2]) = 0
                      THEN name
                      ELSE CODE_CLASS_TO_PENCIL_NAME[CHOOSE i \in hits : TRUE][2]
    IN  IF Len(parentPath) = 0
        THEN (IF Len(mappedName) = 0 THEN mappedName
              ELSE <<UpperChar(mappedName[1])>> \o Tail(mappedName))
        ELSE parentPath \o PATH_SEPARATOR \o mappedName \o <<"[">> \o NatToStr(index) \o <<"]">>

\* whether extractJSXElement walks node.children (always an array in the
\* parser's tree): not for an independent component
WalksChildren(isIndependent) == ~isIndependent

RECURSIVE extractJSXElement(_, _, _, _)
RECURSIVE ExtractChildren(_, _, _, _)

\* the loop over node.children: children holds the elements pushed so far
ExtractChildren(nodeChildren, children, cssStyles, currentPath) ==
    IF nodeChildren = <<>> THEN children
    ELSE LET child == Head(nodeChildren)
             childElement == extractJSXElement(child.element, cssStyles, currentPath,
                                               Len(children))
             next == IF child.kind = "JSXElement" /\ childElement.ok
                     THEN Append(children, childElement.el)
                     ELSE children
         IN  ExtractChildren(Tail(nodeChildren), next, cssStyles, currentPath)

\* context is given by its fields cssStyles and currentPath; the result is
\* NoElement for null
extractJSXElement(node, cssStyles, parentPath, childIndex) ==
    LET openingElement == node
        tagName == getTagName(openingElement)
        currentPath == buildElementPath(tagName, extractClassNames(openingElement),
                                        parentPath, childIndex)
        isIndependent == isIndependentComponent(tagName)
        children == IF WalksChildren(isIndependent)
                    THEN ExtractChildren(node.children, <<>>, cssStyles, currentPath)
                    ELSE <<>>
    IN  IF Len(tagName) = 0 THEN NoElement
        ELSE [ok |-> TRUE,
              el |-> [id |-> generateId(tagName, <<currentPath, childIndex>>),
                      type |-> mapTagToElementType(tagName),
                      path |-> currentPath,
                      content |-> extractTextContent(node),
                      styles |-> extractStyleFromProps(openingElement, cssStyles),
                      children |-> IF Len(children) > 0
                                   THEN [def |-> TRUE, v |-> children]
                                   ELSE NoChildren,
                      independent |-> isIndependent]]

RECURSIVE ExtractRoots(_, _, _)
\* the visits of the returned JSX elements, in order: elements holds the
\* elements pushed so far
ExtractRoots(roots, elements, cssStyles) ==
    IF roots = <<>> THEN elements
    ELSE LET element == extractJSXElement(Head(roots), cssStyles, s_empty, Len(elements))
         IN  ExtractRoots(Tail(roots),
                          IF element.ok THEN Append(elements, element.el) ELSE elements,
                          cssStyles)

\* normalizeCodeFile, from the parsed stylesheet and the JSX elements the
\* traversal visits as the direct argument of a return statement outside
\* hook callbacks
normalizeCodeFile(roots, cssStyles) == ExtractRoots(roots, <<>>, cssStyles)

---------------------------------------------------------------------------
(* The normalizers, each applied once to inputs drawn by Init              *)

s_rgbaFaint == <<"r", "g", "b", "a", "(", "0", ",", " ", "0", ",", " ", "0", ",", " ", "0", ".", "0", "4", ")">>
s_rgbaHalf == <<"r", "g", "b", "a", "(", "0", ",", " ", "0", ",", " ", "0", ",", " ", "0", ".", "5", ")">>
s_rgbaWhite == <<"r", "g", "b", "a", "(", "2", "5", "5", ",", " ", "2", "5", "5", ",", " ", "2", "5", "5", ",", " ", "1", ")">>
s_card == <<"c", "a", "r", "d">>
s_screen == <<"s", "c", "r", "e", "e", "n">>
s_n1 == <<"n", "1">>

\* the most children a node of the inputs is given
MaxNested == 2

\* the sequences of at most n entries of a set
SeqsUpTo(set, n) == UNION {[1..k -> set] : k \in 0..n}

(* design nodes *)

PencilNode(type, name, content, fill, stroke, children) ==
    [id |-> Undef, type |-> type, name |-> name, content |-> content, fill |-> fill,
     stroke |-> stroke, fontSize |-> Undef, fontWeight |-> Undef, padding |-> Undef,
     gap |-> Undef, borderRadius |-> Undef, cornerRadius |-> Undef, width |-> Undef,
     height |-> Undef, children |-> children]

NoStroke == [def |-> FALSE, fill |-> Undef, thickness |-> Undef]

Stroke(fill, thickness) == [def |-> TRUE, fill |-> fill, thickness |-> thickness]

Children(nodes) == [def |-> TRUE, v |-> nodes]

StrokeInputs ==
    {NoStroke} \cup
    {Stroke(fill, thickness) :
        fill \in {Undef, Str(s_empty), Str(s_white), Str(s_whiteNear), Str(s_cyan),
                  Str(s_black), Str(s_rgbaZero), Str(s_rgbaFaint), Str(s_rgbaHalf),
                  Str(s_rgbaWhite), Str(s_rgbaCyanBg)},
        thickness \in {Undef, Num(1)}}

FillInputs == {Undef, Str(s_empty), Str(s_white), Str(s_cyan), Str(s_rgbaCyanBg)}

NameInputs ==
    {Undef, Str(s_settingsButton), Str(s_settingsIndicator), Str(s_divider1), Str(s_card)}

\* nodes without children, in every combination of kind, name and colours
PencilLeaves ==
    {PencilNode(type, name, Undef, fill, stroke, NoChildren) :
        type \in {s_text, s_frame, s_rectangle, s_ellipse},
        name \in NameInputs, fill \in FillInputs, stroke \in StrokeInputs}

TextLeaf == PencilNode(s_text, Str(s_HeaderTitle), Str(s_Hello), Str(s_black), NoStroke,
                       NoChildren)

DividerLeaf ==
    [PencilNode(s_rectangle, Str(s_divider1), Undef, Str(s_white),
                Stroke(Str(s_whiteNear), Num(1)), Children(<<>>))
        EXCEPT !.id = Str(s_n1), !.cornerRadius = Num(4), !.borderRadius = Num(2)]

\* the nodes the trees are built from
PencilParts ==
    {TextLeaf, DividerLeaf,
     PencilNode(s_frame, Str(s_settingsIndicator), Undef, Undef, NoStroke,
                Children(<<TextLeaf>>))}

\* nodes with children, some of them named as independent components, some
\* holding an independent component with children of its own
PencilTrees ==
    {PencilNode(s_frame, name, Undef, Str(s_white), NoStroke, Children(nodes)) :
        name \in {Undef, Str(s_settingsButton), Str(s_headerActions), Str(s_header)},
        nodes \in SeqsUpTo(PencilParts, MaxNested)}

PencilFrames ==
    {[id |-> s_screen, name |-> s_Home, fill |-> fill, cornerRadius |-> cornerRadius,
      gap |-> Undef, padding |-> cornerRadius, children |-> children] :
        fill \in {Undef, Str(s_empty), Str(s_white)},
        cornerRadius \in {Undef, Num(0)},
        children \in {NoChildren} \cup
                     {Children(nodes) : nodes \in SeqsUpTo(PencilTrees, 1)}}

(* JSX elements *)

NoExpression ==
    [kind |-> "none", value |-> <<>>, property |-> [kind |-> "none", name |-> <<>>],
     parts |-> <<>>, quasis |-> <<>>, properties |-> <<>>]

\* styles.name
MemberExpression(name) ==
    [NoExpression EXCEPT !.kind = "MemberExpression",
                         !.property = [kind |-> "Identifier", name |-> name]]

\* styles['name']
ComputedMember(name) ==
    [NoExpression EXCEPT !.kind = "MemberExpression",
                         !.property = [kind |-> "StringLiteral", name |-> name]]

StringLiteral(value) == [NoExpression EXCEPT !.kind = "StringLiteral", !.value = value]

\* `${parts[1]} ${parts[2]}`
TemplateLiteral(quasis, parts) ==
    [NoExpression EXCEPT !.kind = "TemplateLiteral", !.quasis = quasis, !.parts = parts]

\* test ? consequent : alternate
ConditionalExpression(consequent, alternate) ==
    [NoExpression EXCEPT !.kind = "ConditionalExpression",
                         !.parts = <<consequent, alternate>>]

ObjectExpression(properties) ==
    [NoExpression EXCEPT !.kind = "ObjectExpression", !.properties = properties]

ObjectProperty(key, valueKind, value, number) ==
    [kind |-> "ObjectProperty", key |-> [kind |-> "Identifier", name |-> key],
     value |-> [kind |-> valueKind, value |-> value, number |-> number]]

SpreadElement ==
    [kind |-> "SpreadElement", key |-> [kind |-> "none", name |-> "none"],
     value |-> [kind |-> "none", value |-> <<>>, number |-> Undef]]

\* name="value"
LiteralAttribute(name, value) ==
    [kind |-> "JSXAttribute", name |-> name,
     value |-> [kind |-> "StringLiteral", value |-> value, expression |-> NoExpression]]

\* name={expression}
ExpressionAttribute(name, expression) ==
    [kind |-> "JSXAttribute", name |-> name,
     value |-> [kind |-> "JSXExpressionContainer", value |-> <<>>,
                expression |-> expression]]

\* {...props}
JSXSpreadAttribute ==
    [kind |-> "JSXSpreadAttribute", name |-> "none",
     value |-> [kind |-> "none", value |-> <<>>, expression |-> NoExpression]]

JSXIdentifier(name) ==
    [kind |-> "JSXIdentifier", name |-> name, object |-> [kind |-> "none", name |-> <<>>]]

\* object.name
JSXMemberExpression(object, name) ==
    [kind |-> "JSXMemberExpression", name |-> name,
     object |-> [kind |-> "JSXIdentifier", name |-> object]]

\* namespace:name
JSXNamespacedName(name) ==
    [kind |-> "JSXNamespacedName", name |-> name, object |-> [kind |-> "none", name |-> <<>>]]

JSXElement(name, attributes, children) ==
    [name |-> name, attributes |-> attributes, children |-> children]

NoJSXElement == JSXElement([kind |-> "none", name |-> <<>>,
                            object |-> [kind |-> "none", name |-> <<>>]], <<>>, <<>>)

JSXText(value) ==
    [kind |-> "JSXText", value |-> value, expression |-> NoExpression,
     element |-> NoJSXElement]

JSXExpressionContainer(expression) ==
    [kind |-> "JSXExpressionContainer", value |-> <<>>, expression |-> expression,
     element |-> NoJSXElement]

ElementChild(element) ==
    [kind |-> "JSXElement", value |-> <<>>, expression |-> NoExpression,
     element |-> element]

TagInputs ==
    {JSXIdentifier(s_div), JSXIdentifier(s_span), JSXIdentifier(s_SettingsDropdown),
     JSXIdentifier(s_settingsButton), JSXMemberExpression(s_headerActions, s_div),
     JSXNamespacedName(s_div)}

AttributeInputs ==
    {<<>>,
     <<LiteralAttribute("className", s_twoClasses)>>,
     <<ExpressionAttribute("className", MemberExpression(s_welcomeMessage)),
       ExpressionAttribute("style",
            ObjectExpression(<<ObjectProperty("fontSize", "StringLiteral", s_16px, Undef),
                               SpreadElement,
                               ObjectProperty("lineHeight", "StringLiteral", s_1p50, Undef),
                               ObjectProperty("width", "StringLiteral", s_1p5rem, Undef),
                               ObjectProperty("gap", "StringLiteral", s_dot, Undef),
                               ObjectProperty("padding", "NumericLiteral", <<>>, Num(8)),
                               ObjectProperty("height", "Identifier", <<>>, Undef)>>))>>,
     <<ExpressionAttribute("style",
            ObjectExpression(<<ObjectProperty("fontSize", "NumericLiteral", <<>>, Num(12))>>)),
       JSXSpreadAttribute,
       ExpressionAttribute("className",
            TemplateLiteral(<<s_empty, <<" ">>, s_empty>>,
                            <<MemberExpression(s_title),
                              ConditionalExpression(MemberExpression(s_active),
                                                    StringLiteral(s_empty))>>))>>,
     <<ExpressionAttribute("className", ComputedMember(s_title)),
       LiteralAttribute("id", s_title)>>,
     <<ExpressionAttribute("style",
            ObjectExpression(<<ObjectProperty("fontSize", "StringLiteral", s_16px, Undef)>>)),
       ExpressionAttribute("className", MemberExpression(s_welcomeMessage))>>}

\* the children a JSX element of the inputs is built from: texts, and
\* elements with and without a tag name and children of their own
JsxParts ==
    {JSXText(s_helloPad), JSXText(s_blank),
     JSXExpressionContainer(StringLiteral(s_empty)),
     JSXExpressionContainer(TemplateLiteral(<<s_helloPad, s_Bye>>, <<NoExpression>>)),
     ElementChild(JSXElement(JSXNamespacedName(s_div), <<>>, <<>>)),
     ElementChild(JSXElement(JSXIdentifier(s_span),
                             <<ExpressionAttribute("className", MemberExpression(s_title))>>,
                             <<JSXText(s_Hello)>>)),
     ElementChild(JSXElement(JSXIdentifier(s_settingsIndicator), <<>>,
                             <<ElementChild(JSXElement(JSXIdentifier(s_span), <<>>, <<>>))>>))}

JsxElements ==
    {JSXElement(name, attributes, children) :
        name \in TagInputs, attributes \in AttributeInputs,
        children \in SeqsUpTo(JsxParts, MaxNested)}

\* the parsed stylesheet: none, or rules for two classes
CssInputs ==
    {<<>>,
     << <<s_title, << <<"fontSize", Num(16)>>, <<"color", Str(s_black)>> >> >>,
        <<s_welcomeMessage, << <<"fontSize", Num(14)>>, <<"padding", Num(4)>> >> >> >>}

InitNormalize ==
    /\ CompareIdle
    /\ FileIdle
    /\ BatchIdle
    /\ ret = Pending
    /\ \/ /\ fn = "normalizePencilNode"
          /\ args \in [node : PencilLeaves \cup PencilTrees,
                       parentPath : {s_empty, s_Home}, index : 0..1]
       \/ /\ fn = "normalizePencilFrame"
          /\ args \in [frame : PencilFrames]
       \/ /\ fn = "normalizeCodeFile"
          /\ args \in [roots : {<<e>> : e \in JsxElements}
                                \cup {<<e, JSXElement(JSXIdentifier(s_div), <<>>, <<>>)>> :
                                        e \in {f \in JsxElements : f.children = <<>>}},
                       cssStyles : CssInputs]

ApplyNormalizePencilNode ==
    Apply("normalizePencilNode",
          normalizePencilNode(args.node, args.parentPath, args.index))

ApplyNormalizePencilFrame ==
    Apply("normalizePencilFrame", normalizePencilFrame(args.frame))

ApplyNormalizeCodeFile ==
    Apply("normalizeCodeFile", normalizeCodeFile(args.roots, args.cssStyles))

NextNormalize ==
    \/ ApplyNormalizePencilNode
    \/ ApplyNormalizePencilFrame
    \/ ApplyNormalizeCodeFile

SpecNormalize == InitNormalize /\ [][NextNormalize]_vars

RECURSIVE Subtree(_)
\* an element and every element below it, as a set
Subtree(el) ==
    {el} \cup (IF el.children.def
               THEN UNION {Subtree(el.children.v[i]) : i \in 1..Len(el.children.v)}
               ELSE {})

\* the canonical elements the call has returned
Produced ==
    IF ~ret.done THEN {}
    ELSE IF fn = "normalizePencilNode" THEN Subtree(ret.val)
    ELSE IF fn \in {"normalizePencilFrame", "normalizeCodeFile"}
         THEN UNION {Subtree(ret.val[i]) : i \in 1..Len(ret.val)}
    ELSE {}

\* C3: every canonical element produced by either normalizer that is marked
\* as an independent component has no children, whatever the source node
\* or JSX element contains.
C3_IndependentHasNoChildren ==
    \A el \in Produced : el.independent => ~el.children.def

\* the design normalizer was given a node named as an independent component
\* that holds children, and returned it marked and without children
C3_Witness ==
    /\ fn = "normalizePencilNode" /\ ret.done
    /\ args.node.name = Str(s_settingsButton)
    /\ args.node.children.def /\ Len(args.node.children.v) = MaxNested
    /\ ret.val.independent /\ ~ret.val.children.def

\* the code normalizer was given an element whose tag is registered as an
\* independent component and that holds an element child, and returned it
\* marked and without children
C3_WitnessCode ==
    /\ fn = "normalizeCodeFile" /\ ret.done
    /\ \E i \in 1..Len(args.roots[1].children) :
            /\ args.roots[1].children[i].kind = "JSXElement"
            /\ Len(getTagName(args.roots[1].children[i].element)) > 0
    /\ Len(ret.val) > 0 /\ ret.val[1].independent /\ ~ret.val[1].children.def

\* what the colours of the inputs are: red, green, blue, and alpha in
\* thousandths
ColorTable ==
    <<  <<s_white, 255, 255, 255, 1000>>, <<s_whiteNear, 255, 255, 250, 1000>>,
        <<s_cyan, 0, 188, 212, 1000>>, <<s_black, 0, 0, 0, 1000>>,
        <<s_rgbaZero, 0, 0, 0, 0>>, <<s_rgbaFaint, 0, 0, 0, 40>>,
        <<s_rgbaHalf, 0, 0, 0, 500>>, <<s_rgbaWhite, 255, 255, 255, 1000>>,
        <<s_rgbaCyanBg, 0, 188, 212, 100>> >>

IsColor(v) == IsStr(v) /\ \E i \in 1..Len(ColorTable) : ColorTable[i][1] = v.s

ColorOf(v) == ColorTable[CHOOSE i \in 1..Len(ColorTable) : ColorTable[i][1] = v.s]

\* a stroke of the node is imperceptible over the background, by the four
\* conditions
Imperceptible(node, background) ==
    LET stroke == ColorOf(node.stroke.fill)
    IN  \/ stroke[5] < 50
        \/ IsColor(background) /\ node.stroke.fill = background
        \/ /\ IsColor(background)
           /\ (stroke[2] - ColorOf(background)[2]) * (stroke[2] - ColorOf(background)[2])
                + (stroke[3] - ColorOf(background)[3]) * (stroke[3] - ColorOf(background)[3])
                + (stroke[4] - ColorOf(background)[4]) * (stroke[4] - ColorOf(background)[4])
                    < 10 * 10
        \/ /\ node.name \in {Str(s_settingsButton), Str(s_settingsIndicator)}
           /\ IsStr(background) /\ Includes(background.s, s_rgbaCyanPrefix)
           /\ node.stroke.fill = Str(s_cyan)

\* C10: for a design node with a stroke colour, the canonical styles hold
\* neither borderColor nor borderWidth when the stroke is imperceptible
\* (alpha below 5%, or the colour of the background, or an RGB distance
\* below 10 from the background, or the named special case), and hold both
\* otherwise.
C10_InvisibleStroke ==
    (/\ fn = "normalizePencilNode" /\ ret.done
     /\ args.node.stroke.def /\ IsColor(args.node.stroke.fill))
    => LET styles == ret.val.styles
           background == StyleGet(styles, "backgroundColor")
       IN  IF Imperceptible(args.node, background)
           THEN ~StyleHas(styles, "borderColor") /\ ~StyleHas(styles, "borderWidth")
           ELSE StyleHas(styles, "borderColor") /\ StyleHas(styles, "borderWidth")

---------------------------------------------------------------------------
(* normalizeCodeFile as a state machine: the try block step by step, an    *)
(* error raised at any step of it, and the catch clause                    *)

\* the most JSX elements a file of the inputs returns
MaxRoots == 2

\* the returned JSX elements the files of the inputs are made of
FileRoots ==
    {JSXElement(JSXIdentifier(s_div), <<>>, <<>>),
     JSXElement(JSXIdentifier(s_span),
                <<ExpressionAttribute("className", MemberExpression(s_title))>>,
                <<JSXText(s_Hello)>>),
     JSXElement(JSXIdentifier(s_settingsIndicator), <<>>,
                <<ElementChild(JSXElement(JSXIdentifier(s_span), <<>>, <<>>))>>)}

\* tsxCode and cssCode, by what the two parsers make of them: valid is
\* whether parse accepts tsxCode, roots the JSX elements its tree returns
FileInputs ==
    [valid : BOOLEAN, roots : SeqsUpTo(FileRoots, MaxRoots), cssStyles : CssInputs]

NoPromise == [state |-> "none", value |-> <<>>]

PendingPromise == [state |-> "pending", value |-> <<>>]

Fulfilled(value) == [state |-> "fulfilled", value |-> value]

InitFile ==
    /\ HarnessIdle
    /\ CompareIdle
    /\ BatchIdle
    /\ fileInput \in FileInputs
    /\ filePc = "try"
    /\ fileElements = <<>>
    /\ pendingRoots = <<>>
    /\ raised = FALSE
    /\ fileResult = PendingPromise

\* parseCSSModules(cssCode) and parse(tsxCode, ...) return
ParseInputs ==
    /\ filePc = "try"
    /\ fileInput.valid
    /\ filePc' = "getTraverse"
    /\ pendingRoots' = fileInput.roots
    /\ UNCHANGED <<fileInput, fileElements, raised, fileResult>>
    /\ UNCHANGED <<harnessVars, compareVars, batchVars>>

\* parse(tsxCode, ...) throws on markup it does not accept
ParseFails ==
    /\ filePc = "try"
    /\ ~fileInput.valid
    /\ filePc' = "catch"
    /\ raised' = TRUE
    /\ UNCHANGED <<fileInput, fileElements, pendingRoots, fileResult>>
    /\ UNCHANGED <<harnessVars, compareVars, batchVars>>

\* await getTraverse() resumes with the traverse function
LoadTraverse ==
    /\ filePc = "getTraverse"
    /\ filePc' = "traverse"
    /\ UNCHANGED <<fileInput, fileElements, pendingRoots, raised, fileResult>>
    /\ UNCHANGED <<harnessVars, compareVars, batchVars>>

\* the JSXElement visitor on the next returned element: extractJSXElement,
\* and the push of what it returns unless that is null
VisitRoot ==
    /\ filePc = "traverse"
    /\ pendingRoots # <<>>
    /\ fileElements' = ExtractRoots(<<Head(pendingRoots)>>, fileElements, fileInput.cssStyles)
    /\ pendingRoots' = Tail(pendingRoots)
    /\ UNCHANGED <<fileInput, filePc, raised, fileResult>>
    /\ UNCHANGED <<harnessVars, compareVars, batchVars>>

\* a step after the parse raises an error: the import of the traversal
\* rejects, or the traversal or a visitor throws
Raise ==
    /\ filePc \in {"getTraverse", "traverse"}
    /\ filePc' = "catch"
    /\ raised' = TRUE
    /\ UNCHANGED <<fileInput, fileElements, pendingRoots, fileResult>>
    /\ UNCHANGED <<harnessVars, compareVars, batchVars>>

\* the mutant of CatchValue: the catch clause returns what was extracted
CatchValue_partial(elements) == elements

\* what the catch clause returns: return []
CatchValue(elements) == <<>>

\* catch (error) { console.error(...); return []; }
Catch ==
    /\ filePc = "catch"
    /\ fileResult' = Fulfilled(CatchValue(fileElements))
    /\ filePc' = "done"
    /\ UNCHANGED <<fileInput, fileElements, pendingRoots, raised>>
    /\ UNCHANGED <<harnessVars, compareVars, batchVars>>

\* the traversal is over: return elements
ReturnElements ==
    /\ filePc = "traverse"
    /\ pendingRoots = <<>>
    /\ fileResult' = Fulfilled(fileElements)
    /\ filePc' = "done"
    /\ UNCHANGED <<fileInput, fileElements, pendingRoots, raised>>
    /\ UNCHANGED <<harnessVars, compareVars, batchVars>>

NextFile ==
    \/ ParseInputs
    \/ ParseFails
    \/ LoadTraverse
    \/ VisitRoot
    \/ Raise
    \/ Catch
    \/ ReturnElements

SpecFile == InitFile /\ [][NextFile]_vars

\* C11: the promise of normalizeCodeFile is never rejected, and once an
\* error was raised while parsing or walking it is fulfilled with the empty
\* sequence, whatever had been extracted before the error.
C11_FailureYieldsEmpty ==
    /\ fileResult.state \in {"pending", "fulfilled"}
    /\ (raised /\ filePc = "done") => fileResult = Fulfilled(<<>>)

\* an element had been extracted when the error was raised, and the call
\* has returned
C11_Witness ==
    /\ raised
    /\ filePc = "done"
    /\ Len(fileElements) > 0
    /\ fileResult = Fulfilled(<<>>)

---------------------------------------------------------------------------
(* processBatch as a state machine: the worker pool over the shared cursor *)
(* of processNext.  A step is what runs between two awaits.                *)

\* the most components a batch of the inputs holds
MaxComponents == 3

\* the largest concurrency limit of the inputs
MaxConcurrency == 3

\* an IndependentComponent, identified by its tsxPath
Component(i) == [tsxPath |-> i]

BatchInputs == {[i \in 1..n |-> Component(i)] : n \in 0..MaxComponents}

\* options.concurrency: omitted, or a count
ConcurrencyInputs == {Undef} \cup {Num(n) : n \in 0..MaxConcurrency}

DEFAULT_OPTIONS == [concurrency |-> Num(4)]

\* const { concurrency = 4 } = { ...DEFAULT_OPTIONS, ...options }
Concurrency(opts) ==
    IF IsUndef(opts.concurrency) THEN 4 ELSE opts.concurrency.n

Min(a, b) == IF a <= b THEN a ELSE b

\* the mutant of WorkerCount: a worker for every component
WorkerCount_unlimited(concurrency, length) == length

\* the workers the pool loop creates: i < Math.min(concurrency, length)
WorkerCount(concurrency, length) ==
    IF Min(concurrency, length) > 0 THEN Min(concurrency, length) ELSE 0

\* a ProcessResult of processComponent
ProcessResult(component, success) ==
    [componentPath |-> component.tsxPath, success |-> success]

\* a worker inside `await processNext()`, its component being processed
Processing(i) == [state |-> "processing", component |-> i, result |-> <<>>]

InitBatch ==
    /\ HarnessIdle
    /\ CompareIdle
    /\ FileIdle
    /\ components \in BatchInputs
    /\ batchOptions \in [concurrency : ConcurrencyInputs]
    /\ batchPc = "start"
    /\ batchIndex = 0
    /\ results = <<>>
    /\ workers = <<>>
    /\ processed = <<>>
    /\ batchResult = <<>>

\* the pool loop: each worker it creates runs to its first await, so calls
\* processNext, which takes components[index++] and calls processComponent
StartWorkers ==
    /\ batchPc = "start"
    /\ LET count == WorkerCount(Concurrency(batchOptions), Len(components))
       IN  /\ workers' = [w \in 1..count |-> Processing(w)]
           /\ batchIndex' = count
           /\ processed' = [w \in 1..count |-> components[w]]
    /\ batchPc' = "await"
    /\ UNCHANGED <<components, batchOptions, results, batchResult>>
    /\ UNCHANGED <<harnessVars, compareVars, fileVars>>

\* processComponent of worker w returns { success: true, ... } or, from its
\* catch clause, { success: false, ... }: its promise is fulfilled
Settle(w, success) ==
    /\ batchPc = "await"
    /\ workers[w].state = "processing"
    /\ workers' = [workers EXCEPT ![w] =
                      [state |-> "settled", component |-> @.component,
                       result |-> ProcessResult(components[@.component], success)]]
    /\ UNCHANGED <<components, batchOptions, batchPc, batchIndex, results,
                   processed, batchResult>>
    /\ UNCHANGED <<harnessVars, compareVars, fileVars>>

ComponentSucceeds == \E w \in DOMAIN workers : Settle(w, TRUE)

ComponentFails == \E w \in DOMAIN workers : Settle(w, FALSE)

\* worker w resumes with a result: results.push(result), then processNext
\* again, which takes the next component
TakeNext ==
    \E w \in DOMAIN workers :
        /\ batchPc = "await"
        /\ workers[w].state = "settled"
        /\ batchIndex < Len(components)
        /\ results' = Append(results, workers[w].result)
        /\ batchIndex' = batchIndex + 1
        /\ processed' = Append(processed, components[batchIndex + 1])
        /\ workers' = [workers EXCEPT ![w] = Processing(batchIndex + 1)]
        /\ UNCHANGED <<components, batchOptions, batchPc, batchResult>>
        /\ UNCHANGED <<harnessVars, compareVars, fileVars>>

\* worker w resumes with a result: results.push(result), then processNext
\* again, which returns null: the worker breaks out of its loop
WorkerExits ==
    \E w \in DOMAIN workers :
        /\ batchPc = "await"
        /\ workers[w].state = "settled"
        /\ batchIndex >= Len(components)
        /\ results' = Append(results, workers[w].result)
        /\ workers' = [workers EXCEPT ![w] =
                          [state |-> "done", component |-> @.component, result |-> <<>>]]
        /\ UNCHANGED <<components, batchOptions, batchPc, batchIndex, processed,
                       batchResult>>
        /\ UNCHANGED <<harnessVars, compareVars, fileVars>>

\* results.filter(r => r.success == success).length
CountSuccess(rs, success) == Cardinality({i \in 1..Len(rs) : rs[i].success = success})

\* await Promise.all(workers) resumes: the counts and the returned object
ResolveBatch ==
    /\ batchPc = "await"
    /\ \A w \in DOMAIN workers : workers[w].state = "done"
    /\ batchResult' = [total |-> Len(components),
                       successful |-> CountSuccess(results, TRUE),
                       failed |-> CountSuccess(results, FALSE),
                       results |-> results]
    /\ batchPc' = "resolved"
    /\ UNCHANGED <<components, batchOptions, batchIndex, results, workers, processed>>
    /\ UNCHANGED <<harnessVars, compareVars, fileVars>>

NextBatch ==
    \/ StartWorkers
    \/ ComponentSucceeds
    \/ ComponentFails
    \/ TakeNext
    \/ WorkerExits
    \/ ResolveBatch

SpecBatch == InitBatch /\ [][NextBatch]_vars

\* the event loop runs every continuation that is ready, and the processing
\* of each component eventually finishes
SpecBatchFair == SpecBatch /\ WF_vars(NextBatch)

\* the number of positions of sequence s that hold x
Occurrences(s, x) == Cardinality({i \in 1..Len(s) : s[i] = x})

\* C12: when processBatch has resolved, every input component was handed to
\* processComponent exactly once, total is components.length, and results
\* holds exactly one ProcessResult per input component.
C12_ExactlyOnce ==
    batchPc = "resolved"
    => /\ \A i \in 1..Len(components) : Occurrences(processed, components[i]) = 1
       /\ batchResult.total = Len(components)
       /\ Len(batchResult.results) = Len(components)
       /\ \A i \in 1..Len(components) :
             Cardinality({j \in 1..Len(batchResult.results) :
                            batchResult.results[j].componentPath = components[i].tsxPath}) = 1

\* the same for a concurrency limit of at least one
C12_ExactlyOncePositive ==
    Concurrency(batchOptions) >= 1 => C12_ExactlyOnce

\* the components being processed: handed to processComponent, its promise
\* not yet fulfilled
InFlight == {w \in DOMAIN workers : workers[w].state = "processing"}

\* worker w is handed a component in this step
StartsComponent(w) ==
    /\ w \in DOMAIN workers'
    /\ workers'[w].state = "processing"
    /\ (w \in DOMAIN workers => workers'[w].component # workers[w].component)

\* C13: at every moment at most N components, and at most components.length,
\* are being processed, N the concurrency limit; and a worker is handed its
\* next component only in the step that resumes it with the result of its
\* current one.
C13_BoundedInFlight ==
    /\ [](/\ Cardinality(InFlight) <= Concurrency(batchOptions)
          /\ Cardinality(InFlight) <= Len(components))
    /\ [][\A w \in DOMAIN workers :
             StartsComponent(w) => /\ workers[w].state = "settled"
                                   /\ workers[w].result.componentPath
                                        = components[workers[w].component].tsxPath
                                   /\ results' = Append(results, workers[w].result)]_vars

\* there are more components than the limit, a worker has gone on to its
\* next component, and as many as the limit allows are being processed
C13_Witness ==
    /\ Concurrency(batchOptions) >= 2
    /\ Concurrency(batchOptions) < Len(components)
    /\ Cardinality(InFlight) = Concurrency(batchOptions)
    /\ Len(results) > 0

\* processBatch eventually resolves
C14_EventuallyResolves == <>(batchPc = "resolved")

\* it resolves only after every started component has completed or errored:
\* each component handed to processComponent has its result, success or
\* failure, in the results, and no worker is left with one
C14_AfterEveryStarted ==
    [](batchPc = "resolved"
       => /\ \A w \in DOMAIN workers : workers[w].state = "done"
          /\ \A i \in 1..Len(processed) :
                \E j \in 1..Len(batchResult.results) :
                    /\ batchResult.results[j].componentPath = processed[i].tsxPath
                    /\ batchResult.results[j].success \in BOOLEAN)

\* a component that failed is a result with success = false, and the
\* components after it are still handed out
C14_ErrorsCaptured ==
    [][\A w \in DOMAIN workers :
          (workers[w].state = "settled" /\ ~workers[w].result.success
           /\ workers'[w] # workers[w])
          => /\ results' = Append(results, workers[w].result)
             /\ batchPc' = "await"
             /\ (batchIndex < Len(components) => workers'[w].state = "processing")]_vars

\* successful + failed = total in the resolved BatchProcessResult
C14_CountsAddUp ==
    [](batchPc = "resolved"
       => batchResult.successful + batchResult.failed = batchResult.total)

\* C14: provided the processing of each component eventually finishes,
\* processBatch eventually resolves, and only after every started component
\* has completed or errored; an error while processing a component becomes a
\* result with success = false and neither rejects the batch nor stops the
\* remaining components, and successful + failed = total.
C14_ResolvesWithAllCounted ==
    /\ C14_EventuallyResolves
    /\ C14_AfterEveryStarted
    /\ C14_ErrorsCaptured
    /\ C14_CountsAddUp

---------------------------------------------------------------------------
(* Symmetry and monotonicity of the primitives                             *)

\* C15: colorsEqual(c1, c2, t) = colorsEqual(c2, c1, t) for all colour
\* strings, parsable or not, and all tolerances.
C15_ColorsEqualSymmetric ==
    (fn = "colorsEqual" /\ ret.done)
    => ret.val = colorsEqual(args.color2, args.color1, args.tolerance)

\* two different strings of which only the second parses, found equal
C15_Witness ==
    /\ fn = "colorsEqual" /\ ret.done /\ ret.val
    /\ args.color1 # args.color2
    /\ ~hexToRgb(args.color1).ok
    /\ hexToRgb(args.color2).ok

\* C16: for two numbers and every property hint, valuesEqual true at a
\* tolerance is true at every larger tolerance.
C16_ValuesEqualMonotone ==
    (fn = "valuesEqual" /\ ret.done /\ IsNum(args.val1) /\ IsNum(args.val2) /\ ret.val)
    => \A t2 \in (args.tolerance + 1)..MaxScalarTolerance :
          valuesEqual(args.val1, args.val2, t2, args.property)

\* two different numbers equal at a tolerance below the largest and unequal
\* at the tolerance one smaller
C16_Witness ==
    /\ fn = "valuesEqual" /\ ret.done /\ ret.val
    /\ IsNum(args.val1) /\ IsNum(args.val2)
    /\ args.tolerance >= 1 /\ args.tolerance < MaxScalarTolerance
    /\ ~valuesEqual(args.val1, args.val2, args.tolerance - 1, args.property)

---------------------------------------------------------------------------
(* Claims about the accounting of compareStructures (specification Spec)   *)

\* the matched pairs whose code side is the element with this id
PairsOfCode(id) == {i \in 1..Len(result.matches) : result.matches[i].code.id = id}

\* the matched pairs whose design side is the element with this id
PairsOfPencil(id) == {i \in 1..Len(result.matches) : result.matches[i].pencil.id = id}

\* C17: when the alignment pass pairs a design path with a different,
\* alias-equivalent implementation path, the implementation element at that
\* path is matched only: it is not recorded in extraInCode, and it is not
\* paired a second time by content fallback.
C17_AliasedNotReclassified ==
    pc = "done" =>
        \A q \in DOMAIN pathMatches :
            pathMatches[q] # q =>
                LET c == IndexGet(indexByPath(codeElements), pathMatches[q])
                IN  /\ \A e \in Range(result.extraInCode) : e.element.id # c.id
                    /\ \A i \in PairsOfCode(c.id) : result.matches[i].matchMethod # "content"
                    /\ Cardinality(PairsOfCode(c.id)) = 1

\* C18: each implementation element is the code side of at most one matched
\* pair, whichever alignment produced the pairs.
C18_CodeElementPairedOnce ==
    pc = "done" =>
        \A c \in Range(Flatten(codeElements)) : Cardinality(PairsOfCode(c.id)) <= 1

\* the missingInCode entries of the design element with this id
MissingOfPencil(id) ==
    {i \in 1..Len(result.missingInCode) : result.missingInCode[i].element.id = id}

\* C19: each design element of the path index is either the design side of
\* exactly one matched pair or the element of exactly one missingInCode
\* entry, never both and never neither.
C19_DesignElementOnce ==
    pc = "done" =>
        \A i \in 1..Len(indexByPath(pencilElements)) :
            LET d == indexByPath(pencilElements)[i][2]
            IN  Cardinality(PairsOfPencil(d.id)) + Cardinality(MissingOfPencil(d.id)) = 1

---------------------------------------------------------------------------
(* compareElements applied to a pair of elements                           *)

\* the most style properties an element of the inputs has
MaxStyleProps == 2

\* the values the inputs give a style property, by property
StyleValueInputs ==
    << <<"fontWeight", {Num(400), Str(s_normal), Str(s_bold), Str(s_Bold)}>>,
       <<"color", {Str(s_near), Str(s_nearLower), Str(s_nearNoHash), Str(s_black)}>>,
       <<"fontSize", {Num(16), Num(17)}>> >>

RECURSIVE StylesFrom(_, _)
\* the style objects with at most count of the properties from the i-th on
StylesFrom(i, count) ==
    IF i > Len(StyleValueInputs) THEN {<<>>}
    ELSE StylesFrom(i + 1, count)
         \cup (IF count = 0 THEN {}
               ELSE {<< <<StyleValueInputs[i][1], v>> >> \o rest :
                        v \in StyleValueInputs[i][2], rest \in StylesFrom(i + 1, count - 1)})

StyleInputs == StylesFrom(1, MaxStyleProps)

InitElements ==
    /\ CompareIdle
    /\ FileIdle
    /\ BatchIdle
    /\ fn = "compareElements"
    /\ \E pencilStyles \in StyleInputs, codeStyles \in StyleInputs,
          codeContent \in {Str(s_Hello), Str(s_helloPad)}, opts \in OptionValues :
          args = [pencil |-> Element(<<"p", 1>>, "text", buildPath(s_Home, s_title, 0),
                                     Str(s_Hello), pencilStyles, NoChildren),
                  code |-> Element(<<"c", 1>>, "text", buildPath(s_Home, s_title, 0),
                                   codeContent, codeStyles, NoChildren),
                  options |-> opts]
    /\ ret = Pending

ApplyCompareElements ==
    Apply("compareElements", compareElements(args.pencil, args.code, args.options))

NextElements == ApplyCompareElements

SpecElements == InitElements /\ [][NextElements]_vars

\* compareStyles reports a difference for property prop on the pair
StyleDiffReported(pencil, code, opts, prop) ==
    \E d \in Range(compareStyles(pencil, code, opts, pencil.path)) : d.property = prop

\* C20: for every pair of elements and every options value, each property
\* that compareElements decides (not ignored, present on a side) has
\* propertiesMatch true exactly when compareStyles reports no difference for
\* it on the same pair.
C20_PropertiesMatchAgrees ==
    (fn = "compareElements" /\ ret.done)
    => \A i \in 1..Len(ret.val.propertiesMatch) :
          ret.val.propertiesMatch[i][2]
            <=> ~StyleDiffReported(args.pencil, args.code, args.options,
                                   ret.val.propertiesMatch[i][1])

---------------------------------------------------------------------------
(* compareStyles applied to a pair of elements                             *)

\* the style objects of the inputs: critical and non-critical properties,
\* within and beyond the tolerances of the options
StyleDiffInputs ==
    { <<>>,
      << <<"fontSize", Num(16)>> >>,
      << <<"fontSize", Num(17)>> >>,
      << <<"fontSize", Num(18)>>, <<"borderRadius", Num(4)>> >>,
      << <<"borderRadius", Num(4)>> >>,
      << <<"borderRadius", Num(8)>>, <<"color", Str(s_black)>> >>,
      << <<"color", Str(s_near)>>, <<"fontWeight", Str(s_bold)>> >>,
      << <<"fontWeight", Num(400)>>, <<"borderRadius", Num(8)>> >> }

\* the options of the inputs: the modes, with and without ignored properties
StyleOptionInputs ==
    OptionValues \cup
    { Options(Undef, Undef, "normal", NoIgnore),
      Options(Num(1), Num(10), "normal", [def |-> TRUE, v |-> {"content", "borderRadius"}]),
      Options(Undef, Undef, "lenient", NoIgnore) }

InitStyles ==
    /\ CompareIdle
    /\ FileIdle
    /\ BatchIdle
    /\ fn = "compareStyles"
    /\ \E pencilStyles \in StyleDiffInputs, codeStyles \in StyleDiffInputs,
          pencilContent \in {Undef, Str(s_Hello)},
          codeContent \in {Str(s_Hello), Str(s_helloPad)}, opts \in StyleOptionInputs :
          args = [pencil |-> Element(<<"p", 1>>, "text", buildPath(s_Home, s_title, 0),
                                     pencilContent, pencilStyles, NoChildren),
                  code |-> Element(<<"c", 1>>, "text", buildPath(s_Home, s_title, 0),
                                   codeContent, codeStyles, NoChildren),
                  options |-> opts]
    /\ ret = Pending

ApplyCompareStyles ==
    Apply("compareStyles",
          compareStyles(args.pencil, args.code, args.options, args.pencil.path))

NextStyles == ApplyCompareStyles

SpecStyles == InitStyles /\ [][NextStyles]_vars

\* the severity the rule gives a difference on a style-map key
RuleSeverity(property, mode) ==
    IF mode = "strict" THEN "error"
    ELSE IF mode = "lenient" THEN "info"
    ELSE IF property \in {"content", "fontSize", "fontWeight", "color",
                          "backgroundColor", "padding", "gap"} THEN "error"
    ELSE "warning"

\* C21: of the differences compareStyles reports, none is on an ignored
\* property; there is a content difference exactly when content is not
\* ignored and the two contents are not identical, and its severity is
\* 'error'; a difference on a style-map key has severity 'error' in strict
\* mode, 'info' in lenient mode, and otherwise 'error' for a key of the
\* critical set and 'warning' for any other key.
C21_SeverityRule ==
    (fn = "compareStyles" /\ ret.done)
    => /\ \A d \in Range(ret.val) : d.property \notin IgnoreProps(args.options)
       /\ (\E d \in Range(ret.val) : d.property = "content")
            <=> ("content" \notin IgnoreProps(args.options)
                 /\ args.pencil.content # args.code.content)
       /\ \A d \in Range(ret.val) :
            d.severity = IF d.property = "content" THEN "error"
                         ELSE RuleSeverity(d.property, args.options.severity)

\* outside strict and lenient mode, a content difference, a difference on a
\* critical key and a difference on another key are reported together
C21_Witness ==
    /\ fn = "compareStyles" /\ ret.done
    /\ args.options.severity \notin {"strict", "lenient"}
    /\ \E d \in Range(ret.val) : d.property = "content" /\ d.severity = "error"
    /\ \E d \in Range(ret.val) : d.property = "fontSize" /\ d.severity = "error"
    /\ \E d \in Range(ret.val) : d.property = "borderRadius" /\ d.severity = "warning"

\* the properties of the fixed list that are not ignored and are present on
\* at least one side of the pair
ComparedProperties(pencil, code, opts) ==
    {prop \in {"content", "fontSize", "fontWeight", "color", "backgroundColor",
               "padding", "gap", "borderRadius"} :
        /\ prop \notin IgnoreProps(opts)
        /\ ~(IsUndef(PropValue(pencil, prop)) /\ IsUndef(PropValue(code, prop)))}

\* C22: the confidence compareElements returns is the number of compared
\* properties that match over the number of compared properties, the
\* compared properties being those of the fixed list that are not ignored
\* and are present on at least one side; it is 1 when nothing is compared,
\* and it lies in [0, 1].
C22_ConfidenceIsMatchRatio ==
    (fn = "compareElements" /\ ret.done)
    => LET compared == ComparedProperties(args.pencil, args.code, args.options)
           flags == ret.val.propertiesMatch
           matched == {i \in 1..Len(flags) : flags[i][2]}
           confidence == ret.val.confidence
       IN  /\ {flags[i][1] : i \in 1..Len(flags)} = compared
           /\ Len(flags) = Cardinality(compared)
           /\ confidence.den > 0
           /\ IF compared = {} THEN confidence.num = confidence.den
              ELSE confidence.num * Cardinality(compared)
                     = Cardinality(matched) * confidence.den
           /\ 0 <= confidence.num /\ confidence.num <= confidence.den

\* some compared properties match and some do not, one of them present on
\* the design side only
C22_Witness ==
    /\ fn = "compareElements" /\ ret.done
    /\ 0 < ret.val.confidence.num
    /\ ret.val.confidence.num < ret.val.confidence.den
    /\ \E prop \in ComparedProperties(args.pencil, args.code, args.options) :
          IsUndef(PropValue(args.code, prop))

\* every property of the pair is ignored or absent on both sides
C22_WitnessNothingCompared ==
    /\ fn = "compareElements" /\ ret.done
    /\ ComparedProperties(args.pencil, args.code, args.options) = {}
    /\ args.pencil.styles # <<>>

---------------------------------------------------------------------------
(* Claims about arePathsEquivalentByName (specification SpecPath)          *)

\* the characters of s before the first occurrence of p, all of s if none
Before(s, p) == IF IndexOf(s, p) = 0 THEN s ELSE SubSeq(s, 1, IndexOf(s, p) - 1)

\* the root segment of a path, its index suffix removed
RootNameOf(path) == Before(Before(path, PATH_SEPARATOR), <<"[">>)

\* the final segment of a path, its index suffix removed
FinalNameOf(path) ==
    LET starts == {i \in 1..Len(path) :
                      /\ i + Len(PATH_SEPARATOR) - 1 <= Len(path)
                      /\ SubSeq(path, i, i + Len(PATH_SEPARATOR) - 1) = PATH_SEPARATOR}
        last == IF starts = {} THEN path
                ELSE SubSeq(path, (CHOOSE i \in starts : \A j \in starts : i >= j)
                                    + Len(PATH_SEPARATOR), Len(path))
    IN  Before(last, <<"[">>)

\* the rule by names: same root name, and the alias of the design path's
\* final name is the implementation path's final name
EquivalentByNames(pencilPath, codePath, nameMapping) ==
    /\ RootNameOf(pencilPath) = RootNameOf(codePath)
    /\ ApplyNameMapping(nameMapping, FinalNameOf(pencilPath)) = FinalNameOf(codePath)

\* paths with the root and final names of path, but other intermediate
\* segments and other sibling indices
Alternatives(path) ==
    {buildPath(RootNameOf(path), FinalNameOf(path), 5),
     buildPath(buildPath(RootNameOf(path), s_headerActions, 3), FinalNameOf(path), 7)}

---------------------------------------------------------------------------
(* Claims about the normalizers (specification SpecNormalize)              *)

\* the segment name the rule gives a named design node: the trailing digit
\* run stripped for every kind, and for a text node also the
\* non-alphanumeric characters removed and the first letter lower-cased
SegmentNameRule(node) ==
    IF node.type = s_text THEN normalizePencilName(node.name.s)
    ELSE stripNumericSuffix(node.name.s)

\* C24: the path segment normalizePencilNode builds for a named node has
\* the node name with its trailing digit run stripped, for every node kind
\* (divider1 gives divider); for a text node the non-alphanumeric characters
\* are removed and the first letter is lower-cased as well.
C24_SegmentNameStripsDigits ==
    (fn = "normalizePencilNode" /\ ret.done /\ Truthy(args.node.name))
    => FinalNameOf(ret.val.path) = SegmentNameRule(args.node)

---------------------------------------------------------------------------
(* Class references and inline styles of a JSX element                     *)

\* the classes a className expression that combines references names: a
\* template literal, or a logical, conditional or binary expression
CombinedClassReferences(openingElement) ==
    UNION {Range(extractClassNamesFromExpression(
                    openingElement.attributes[i].value.expression)) :
            i \in {j \in 1..Len(openingElement.attributes) :
                    /\ openingElement.attributes[j].kind = "JSXAttribute"
                    /\ openingElement.attributes[j].name = "className"
                    /\ openingElement.attributes[j].value.kind = "JSXExpressionContainer"
                    /\ openingElement.attributes[j].value.expression.kind \in
                            {"TemplateLiteral", "LogicalExpression",
                             "ConditionalExpression", "BinaryExpression"}}}

\* the classes a direct styles.x className names
DirectClassReferences(openingElement) ==
    UNION {Range(extractClassNamesFromExpression(
                    openingElement.attributes[i].value.expression)) :
            i \in {j \in 1..Len(openingElement.attributes) :
                    /\ openingElement.attributes[j].kind = "JSXAttribute"
                    /\ openingElement.attributes[j].name = "className"
                    /\ openingElement.attributes[j].value.kind = "JSXExpressionContainer"
                    /\ openingElement.attributes[j].value.expression.kind
                            = "MemberExpression"}}

\* the styles hold every property the stylesheet gives the classes
HoldsClassProperties(styles, classes, cssStyles) ==
    \A c \in classes :
        \A key \in Range(StyleKeys(CssGet(cssStyles, c).styles)) : StyleHas(styles, key)

\* C25: for an implementation element whose className is a template
\* literal, or a logical, conditional or binary expression, combining
\* several style-class references, the canonical styles of the element
\* contain the stylesheet properties of every referenced class, as they do
\* for a single direct styles.x reference.
C25_CombinedClassStylesApplied ==
    (fn = "normalizeCodeFile" /\ ret.done /\ Len(getTagName(args.roots[1])) > 0)
    => HoldsClassProperties(ret.val[1].styles, CombinedClassReferences(args.roots[1]),
                            args.cssStyles)

\* the part of the rule the code keeps: the properties of a class named by
\* a direct reference are in the canonical styles
C25_DirectClassStylesApplied ==
    (fn = "normalizeCodeFile" /\ ret.done /\ Len(getTagName(args.roots[1])) > 0)
    => HoldsClassProperties(ret.val[1].styles, DirectClassReferences(args.roots[1]),
                            args.cssStyles)

\* the attributes of the element with the given name, in written order
AttributesNamed(openingElement, name) ==
    SelectSeq(openingElement.attributes,
              LAMBDA attr : attr.kind = "JSXAttribute" /\ attr.name = name)

\* what the inline style objects of the element set
InlineStyleValues(openingElement) ==
    StylesOfAttributes(<<>>, AttributesNamed(openingElement, "style"), <<>>)

\* what the style-class references of the element set
ClassStyleValues(openingElement, cssStyles) ==
    StylesOfAttributes(<<>>, AttributesNamed(openingElement, "className"), cssStyles)

\* the properties both a class reference and an inline style object set
SetByBoth(openingElement, cssStyles) ==
    {key \in Range(StyleKeys(InlineStyleValues(openingElement))) :
        StyleHas(ClassStyleValues(openingElement, cssStyles), key)}

\* the style attribute is written before the className attribute
StyleWrittenFirst(openingElement) ==
    \E i, j \in 1..Len(openingElement.attributes) :
        /\ i < j
        /\ openingElement.attributes[i].kind = "JSXAttribute"
        /\ openingElement.attributes[i].name = "style"
        /\ openingElement.attributes[j].kind = "JSXAttribute"
        /\ openingElement.attributes[j].name = "className"

\* C26: when a style-class reference and an inline style object on the
\* same element both set a property, the canonical styles of the element
\* hold the inline value, for every order in which the className and style
\* attributes are written on the element.
C26_InlineValueWins ==
    (fn = "normalizeCodeFile" /\ ret.done /\ Len(getTagName(args.roots[1])) > 0)
    => \A key \in SetByBoth(args.roots[1], args.cssStyles) :
            StyleGet(ret.val[1].styles, key)
                = StyleGet(InlineStyleValues(args.roots[1]), key)

\* the part of the rule the code keeps: the inline value is held when the
\* className attribute is written before the style attribute
C26_InlineValueWinsWrittenLast ==
    (/\ fn = "normalizeCodeFile" /\ ret.done /\ Len(getTagName(args.roots[1])) > 0
     /\ ~StyleWrittenFirst(args.roots[1]))
    => \A key \in SetByBoth(args.roots[1], args.cssStyles) :
            StyleGet(ret.val[1].styles, key)
                = StyleGet(InlineStyleValues(args.roots[1]), key)

\* a class reference written before the inline style object set the same
\* property, and the canonical styles hold the inline value
C26_WitnessWrittenLast ==
    /\ fn = "normalizeCodeFile" /\ ret.done /\ Len(getTagName(args.roots[1])) > 0
    /\ ~StyleWrittenFirst(args.roots[1])
    /\ SetByBoth(args.roots[1], args.cssStyles) # {}

---------------------------------------------------------------------------
(* findMatchByContent, applied once to inputs drawn by Init                *)

MaxCandidates == 3

\* the elements of the forest searched: of either type, with a text that
\* trims and lower-cases to 'hello', with another text, or with none
CandidateKinds ==
    { [type |-> type, name |-> s_label, content |-> content, styles |-> <<>>] :
        type \in {"text", "container"},
        content \in {Str(s_helloPad), Str(s_Bye), Undef} }

CandidateForests ==
    {Forest("c", kinds) : kinds \in [1..MaxCandidates -> CandidateKinds]}

\* the element looked for: of either type, with the text 'Hello', a blank
\* text or none
TargetInputs ==
    {Element(<<"p", 1>>, type, buildPath(s_Home, s_title, 0), content, <<>>, NoChildren) :
        type \in {"text", "container"},
        content \in {Str(s_Hello), Str(s_blank), Undef}}

InitContent ==
    /\ CompareIdle
    /\ FileIdle
    /\ BatchIdle
    /\ fn = "findMatchByContent"
    /\ ret = Pending
    /\ args \in [target : TargetInputs, contentIndex : CandidateForests,
                 matchedIds : SUBSET {<<"c", i>> : i \in 1..MaxCandidates}]

ApplyFindMatchByContent ==
    Apply("findMatchByContent",
          findMatchByContent(args.target, args.contentIndex, args.matchedIds))

NextContent == ApplyFindMatchByContent

SpecContent == InitContent /\ [][NextContent]_vars

\* the positions, in the walk of the forest, of the elements whose trimmed
\* lower-cased text is that of the target
SharingText(target, forest) ==
    {i \in 1..Len(Flatten(forest)) :
        /\ HasText(target) /\ HasText(Flatten(forest)[i])
        /\ toLowerCase(trim(Flatten(forest)[i].content.s))
                = toLowerCase(trim(target.content.s))}

\* those of them no earlier match has claimed
Unclaimed(target, forest, matchedIds) ==
    {i \in SharingText(target, forest) : Flatten(forest)[i].id \notin matchedIds}

\* those of the unclaimed that are of the kind of the target
UnclaimedSameKind(target, forest, matchedIds) ==
    {i \in Unclaimed(target, forest, matchedIds) : Flatten(forest)[i].type = target.type}

Least(set) == CHOOSE i \in set : \A j \in set : i <= j

C27_WitnessAllClaimed ==
    /\ fn = "findMatchByContent" /\ ret.done
    /\ SharingText(args.target, args.contentIndex) # {}
    /\ Unclaimed(args.target, args.contentIndex, args.matchedIds) = {}
    /\ ret.val = NoElement

\* the only unclaimed candidates are of another kind and the first of them
\* is returned
C27_WitnessOtherKind ==
    /\ fn = "findMatchByContent" /\ ret.done
    /\ UnclaimedSameKind(args.target, args.contentIndex, args.matchedIds) = {}
    /\ Cardinality(Unclaimed(args.target, args.contentIndex, args.matchedIds)) > 1
    /\ ret.val.ok /\ ret.val.el.type # args.target.type

---------------------------------------------------------------------------
(* indexByPath over the forests the normalizers return                     *)

\* the forest the call has returned
ProducedForest == IF fn = "normalizePencilNode" THEN <<ret.val>> ELSE ret.val

\* every node of the forest is the entry of the index under its own path
EveryNodeIndexed(forest) ==
    /\ Len(indexByPath(forest)) = Len(Flatten(forest))
    /\ \A i \in 1..Len(Flatten(forest)) :
            IndexGet(indexByPath(forest), Flatten(forest)[i].path) = Flatten(forest)[i]

\* C28: for every forest produced by the design normalizer or by the
\* implementation normalizer, indexByPath records every node, inner and
\* leaf, under its own path: index[n.path] is n for each node n, the number
\* of indexed paths is the number of nodes, and no node is shadowed by
\* another node with the same path.
C28_EveryNodeIndexed ==
    (fn \in {"normalizePencilNode", "normalizePencilFrame", "normalizeCodeFile"}
     /\ ret.done)
    => EveryNodeIndexed(ProducedForest)

\* the part of the rule the code keeps: the forests of the design
\* normalizer, and the forests of the implementation normalizer with one
\* root, are indexed node by node
C28_EveryNodeIndexedOneRoot ==
    (/\ fn \in {"normalizePencilNode", "normalizePencilFrame", "normalizeCodeFile"}
     /\ ret.done
     /\ fn = "normalizeCodeFile" => Len(ret.val) < 2)
    => EveryNodeIndexed(ProducedForest)

---------------------------------------------------------------------------
(* The compare command of the CLI (unnamed/part_014)                       *)

\* the largest number of screens of a configuration
MaxScreens == 2

\* a configured screen, by what loading its sources gives: loads is false
\* when loadPencilData, readFile or a normalizer throws
Screen(id, frameId, loads, pencil, code) ==
    [id |-> id, frameId |-> frameId, loads |-> loads, pencil |-> pencil, code |-> code]

\* the design forests of the screens: the root alone or with a title
ScreenPencilForests ==
    {Forest("p", kinds) : kinds \in SeqsUpTo({k \in PencilKinds : k.name = s_title}, 1)}

\* the implementation forests of the screens: the root alone, with a title
\* or with a divider
ScreenCodeForests ==
    {Forest("c", kinds) :
        kinds \in SeqsUpTo({k \in CodeKinds : k.name \in {s_title, s_divider}}, 1)}

\* what a screen of the configuration is, for the screen at a position
ScreenInputs(i) ==
    {Screen(<<"s", i>>, <<"f", i>>, TRUE, pencil, code) :
        pencil \in ScreenPencilForests, code \in ScreenCodeForests}
    \cup {Screen(<<"s", i>>, <<"f", i>>, FALSE, <<>>, <<>>)}

ConfigInputs ==
    UNION {{screens \in [1..n -> UNION {ScreenInputs(i) : i \in 1..n}] :
                \A i \in 1..n : screens[i] \in ScreenInputs(i)} : n \in 0..MaxScreens}

\* --screen: absent, the id of the first screen, the frame of the last, or
\* the id of no screen
ScreenOptionInputs == {<<>>, <<"s", 1>>, <<"f", MaxScreens>>, <<"s", 0>>}

\* the filter of handleCompare on --screen
ScreensToCompare(screens, screen) ==
    IF screen # <<>>
    THEN SelectSeq(screens, LAMBDA s : s.frameId = screen \/ s.id = screen)
    ELSE screens

RECURSIVE runComparison(_, _)
\* results.screens: the result of each screen whose sources load, in order;
\* a screen that throws is reported and skipped
runComparison(screens, opts) ==
    IF screens = <<>> THEN <<>>
    ELSE (IF Head(screens).loads
          THEN <<compareStructures(Head(screens).pencil, Head(screens).code, opts)>>
          ELSE <<>>)
         \o runComparison(Tail(screens), opts)

\* results.screens.some(screen => screen.summary.missingElements > 0 ||
\* screen.summary.styleDiffs > 0)
hasErrors(screens) ==
    \E i \in 1..Len(screens) :
        screens[i].summary.missingElements > 0 \/ screens[i].summary.styleDiffs > 0

\* handleCompare, by the code the process exits with and the results it
\* compared: configLoads is false when parsing the options or loading the
\* configuration throws, reportWrites when writing the report does
handleCompare(configLoads, screens, opts, screen, reportWrites) ==
    IF ~configLoads THEN [exitCode |-> 1, screens |-> <<>>]
    ELSE IF Len(ScreensToCompare(screens, screen)) = 0
    THEN [exitCode |-> 1, screens |-> <<>>]
    ELSE LET compared == runComparison(ScreensToCompare(screens, screen), opts)
         IN  IF ~reportWrites THEN [exitCode |-> 1, screens |-> compared]
             ELSE [exitCode |-> IF hasErrors(compared) THEN 1 ELSE 0, screens |-> compared]

InitCli ==
    /\ CompareIdle
    /\ FileIdle
    /\ BatchIdle
    /\ fn = "handleCompare"
    /\ ret = Pending
    /\ args \in [configLoads : BOOLEAN, screens : ConfigInputs, options : OptionValues,
                 screen : ScreenOptionInputs, reportWrites : BOOLEAN]

ApplyHandleCompare ==
    Apply("handleCompare",
          handleCompare(args.configLoads, args.screens, args.options, args.screen,
                        args.reportWrites))

NextCli == ApplyHandleCompare

SpecCli == InitCli /\ [][NextCli]_vars

\* C29: the compare command exits with a non-zero code whenever the
\* summary status of at least one compared screen is 'fail', and exits
\* with code 0 only when no compared screen has status 'fail'.
C29_ExitCodeReflectsFail ==
    (fn = "handleCompare" /\ ret.done)
    => /\ (\E i \in 1..Len(ret.val.screens) : ret.val.screens[i].summary.status = "fail")
            => ret.val.exitCode # 0
       /\ ret.val.exitCode = 0
            => \A i \in 1..Len(ret.val.screens) :
                    ret.val.screens[i].summary.status # "fail"

\* the part of the rule the code keeps: the command exits with a non-zero
\* code when a compared screen has a missing element or a style difference
\* of severity error, and with 0 only when none has
C29_ExitCodeReflectsMissingOrStyle ==
    (fn = "handleCompare" /\ ret.done)
    => (ret.val.exitCode = 0
            <=> /\ args.configLoads /\ args.reportWrites
                /\ Len(ScreensToCompare(args.screens, args.screen)) > 0
                /\ \A i \in 1..Len(ret.val.screens) :
                        /\ ErrorCount(ret.val.screens[i].missingInCode) = 0
                        /\ ErrorCount(ret.val.screens[i].styleDiffs) = 0)

\* a compared screen failed on a missing element and the command exited
\* with a non-zero code
C29_WitnessFailExits ==
    /\ fn = "handleCompare" /\ ret.done
    /\ args.configLoads /\ args.reportWrites
    /\ \E i \in 1..Len(ret.val.screens) :
            /\ ret.val.screens[i].summary.status = "fail"
            /\ ret.val.screens[i].summary.missingElements > 0
    /\ ret.val.exitCode = 1

---------------------------------------------------------------------------
(* compareStructures of a forest with itself                               *)

\* the paths of the nodes of the forest are pairwise distinct
DistinctPaths(forest) ==
    \A i, j \in 1..Len(Flatten(forest)) :
        Flatten(forest)[i].path = Flatten(forest)[j].path => i = j

\* the canonical forests compared with themselves: the design and
\* implementation forests of the comparison, and the forests the code
\* normalizer returns for one root element without children
SelfForests ==
    {forest \in PencilForests \cup CodeForests
                \cup {normalizeCodeFile(<<e>>, cssStyles) :
                        e \in {f \in JsxElements : f.children = <<>>},
                        cssStyles \in CssInputs} :
        DistinctPaths(forest)}

InitSelf ==
    /\ CompareIdle
    /\ FileIdle
    /\ BatchIdle
    /\ fn = "compareStructures"
    /\ ret = Pending
    /\ args \in [forest : SelfForests, options : StyleOptionInputs]

ApplyCompareStructures ==
    Apply("compareStructures", compareStructures(args.forest, args.forest, args.options))

NextSelf == ApplyCompareStructures

SpecSelf == InitSelf /\ [][NextSelf]_vars

\* the result pairs each node of the forest with itself at confidence 1 and
\* reports nothing else
CleanResult(forest, res) ==
    /\ Len(res.matches) = Len(Flatten(forest))
    /\ \A i \in 1..Len(Flatten(forest)) :
            \E j \in 1..Len(res.matches) :
                /\ res.matches[j].pencil = Flatten(forest)[i]
                /\ res.matches[j].code = Flatten(forest)[i]
                /\ res.matches[j].confidence.num = res.matches[j].confidence.den
    /\ res.missingInCode = <<>>
    /\ res.extraInCode = <<>>
    /\ res.styleDiffs = <<>>
    /\ res.summary.matchRate.num = 100 * res.summary.matchRate.den
    /\ res.summary.status = "pass"

\* some style of some node of the forest is NaN
HoldsNaN(forest) ==
    \E i \in 1..Len(Flatten(forest)) :
        \E k \in 1..Len(Flatten(forest)[i].styles) :
            Flatten(forest)[i].styles[k][2] = NaNValue

\* C30: comparing a canonical forest with itself is clean: for every forest
\* F whose nodes have pairwise distinct paths and every options value,
\* compareStructures(F, F) yields one matched pair per node with confidence
\* 1, empty missingInCode, extraInCode and styleDiffs, matchRate 100 and
\* status 'pass'.
C30_SelfComparisonClean ==
    (fn = "compareStructures" /\ ret.done /\ DistinctPaths(args.forest))
    => CleanResult(args.forest, ret.val)

\* the part of the rule the code keeps: the comparison of a forest with
\* itself is clean when no style of the forest is NaN
C30_SelfComparisonCleanWithoutNaN ==
    (fn = "compareStructures" /\ ret.done /\ DistinctPaths(args.forest)
     /\ ~HoldsNaN(args.forest))
    => CleanResult(args.forest, ret.val)

\* a forest of a root and its children, some with text and styles, was
\* compared with itself and the result is clean
C30_WitnessClean ==
    /\ fn = "compareStructures" /\ ret.done
    /\ Len(Flatten(args.forest)) > MaxChildren
    /\ \E i \in 1..Len(Flatten(args.forest)) :
            HasText(Flatten(args.forest)[i]) /\ Len(Flatten(args.forest)[i].styles) > 1
    /\ CleanResult(args.forest, ret.val)

===========================================================================
